---- MODULE Spec2Model ----
(***************************************************************************)
(* A model of the Matchday polling core (custom_components/matchday):      *)
(* the keyed API-Football client (api.py), the keyless OpenLigaDB client   *)
(* (api_openligadb.py) and the polling coordinator (coordinator.py).       *)
(*                                                                         *)
(* Python strings are sequences of one-character strings, compared by      *)
(* code point as Python compares them.  JSON values are tagged records.    *)
(* An operation's outcome is a record naming the exception class it        *)
(* raised ("none" when it returned) and the value it returned.             *)
(***************************************************************************)
EXTENDS Integers, Sequences, FiniteSets, TLC

(***************************************************************************)
(* Strings                                                                 *)
(***************************************************************************)

\* The characters the model uses, in increasing code point order.
Ascii ==
    << " ", "+", "-", ".", "/",
       "0", "1", "2", "3", "4", "5", "6", "7", "8", "9", ":",
       "A", "B", "C", "D", "E", "F", "G", "H", "I", "J", "K", "L", "M",
       "N", "O", "P", "Q", "R", "S", "T", "U", "V", "W", "X", "Y", "Z",
       "_",
       "a", "b", "c", "d", "e", "f", "g", "h", "i", "j", "k", "l", "m",
       "n", "o", "p", "q", "r", "s", "t", "u", "v", "w", "x", "y", "z",
       "|" >>

\* The rank of a character in code point order.
OrdTable ==
    [c \in {Ascii[i] : i \in 1..Len(Ascii)} |->
        CHOOSE i \in 1..Len(Ascii) : Ascii[i] = c]

Ord(c) == OrdTable[c]

Digits == << "0", "1", "2", "3", "4", "5", "6", "7", "8", "9" >>

IsDigit(c) == c \in {"0", "1", "2", "3", "4", "5", "6", "7", "8", "9"}

DigitVal(c) == Ord(c) - Ord("0")

\* s[a..b] is all digits.
IsDigits(s, a, b) == \A i \in a..b : IsDigit(s[i])

\* The number written in s[a..b].
RECURSIVE NumVal(_, _, _)
NumVal(s, a, b) ==
    IF b < a THEN 0 ELSE NumVal(s, a, b - 1) * 10 + DigitVal(s[b])

\* Two decimal digits of n, as Python's %02d.
Str2(n) == << Digits[(n \div 10) + 1], Digits[(n % 10) + 1] >>

\* str(n) of a non-negative int.
RECURSIVE StrInt(_)
StrInt(n) ==
    IF n < 10 THEN << Digits[n + 1] >>
    ELSE StrInt(n \div 10) \o << Digits[(n % 10) + 1] >>

\* str.lower() on one character.
LowerChar(c) ==
    IF Ord(c) >= Ord("A") /\ Ord(c) <= Ord("Z")
    THEN Ascii[Ord(c) - Ord("A") + Ord("a")]
    ELSE c

\* str.lower()
Lower(s) == [i \in 1..Len(s) |-> LowerChar(s[i])]

\* sub in s
Contains(sub, s) ==
    \E i \in 0..(Len(s) - Len(sub)) : SubSeq(s, i + 1, i + Len(sub)) = sub

\* sep.join(parts)
RECURSIVE Join(_, _)
Join(sep, parts) ==
    IF Len(parts) = 0 THEN << >>
    ELSE IF Len(parts) = 1 THEN parts[1]
    ELSE parts[1] \o sep \o Join(sep, Tail(parts))

\* a < b on Python str: the first differing character decides, a proper
\* prefix is smaller.
StrLess(a, b) ==
    \E i \in 1..Len(b) :
        /\ i <= Len(a) + 1
        /\ \A j \in 1..(i - 1) : a[j] = b[j]
        /\ \/ i = Len(a) + 1
           \/ Ord(a[i]) < Ord(b[i])

(***************************************************************************)
(* datetime                                                                *)
(***************************************************************************)

IsLeap(y) == (y % 4 = 0 /\ y % 100 # 0) \/ y % 400 = 0

DaysInMonth(y, m) ==
    IF m = 2 THEN (IF IsLeap(y) THEN 29 ELSE 28)
    ELSE IF m \in {4, 6, 9, 11} THEN 30 ELSE 31

\* Days from 2000-01-01 to the civil date y-m-d (proleptic Gregorian).
DaysFromCivil(y, m, d) ==
    LET yy  == IF m <= 2 THEN y - 1 ELSE y
        era == yy \div 400
        yoe == yy - era * 400
        mp  == IF m > 2 THEN m - 3 ELSE m + 9
        doy == (153 * mp + 2) \div 5 + d - 1
        doe == yoe * 365 + yoe \div 4 - yoe \div 100 + doy
    IN  era * 146097 + doe - 730425

\* A datetime: civil fields as written, and the zone offset in minutes
\* (aware = FALSE for a naive datetime).  ok = FALSE stands for ValueError.
NoDatetime ==
    [ok |-> FALSE, aware |-> FALSE, y |-> 0, m |-> 0, d |-> 0,
     hh |-> 0, mi |-> 0, ss |-> 0, off |-> 0]

\* The zone suffix of an ISO string: "" (naive), "Z", or +HH:MM / -HH:MM.
ParseZone(z) ==
    IF Len(z) = 0 THEN [ok |-> TRUE, aware |-> FALSE, off |-> 0]
    ELSE IF z = << "Z" >> THEN [ok |-> TRUE, aware |-> TRUE, off |-> 0]
    ELSE IF /\ Len(z) = 6
            /\ z[1] \in {"+", "-"}
            /\ IsDigits(z, 2, 3)
            /\ z[4] = ":"
            /\ IsDigits(z, 5, 6)
            /\ NumVal(z, 2, 3) <= 23
            /\ NumVal(z, 5, 6) <= 59
         THEN [ok |-> TRUE, aware |-> TRUE,
               off |-> (IF z[1] = "-" THEN -1 ELSE 1)
                         * (NumVal(z, 2, 3) * 60 + NumVal(z, 5, 6))]
    ELSE [ok |-> FALSE, aware |-> FALSE, off |-> 0]

\* datetime.fromisoformat(s) for the shapes YYYY-MM-DD, YYYY-MM-DDTHH:MM and
\* YYYY-MM-DDTHH:MM:SS, each with an optional zone suffix after a time.
fromisoformat(s) ==
    LET n       == Len(s)
        dateOk  == /\ n >= 10
                   /\ IsDigits(s, 1, 4) /\ s[5] = "-"
                   /\ IsDigits(s, 6, 7) /\ s[8] = "-"
                   /\ IsDigits(s, 9, 10)
        y       == NumVal(s, 1, 4)
        m       == NumVal(s, 6, 7)
        d       == NumVal(s, 9, 10)
        civilOk == /\ dateOk
                   /\ y >= 1 /\ m \in 1..12
                   /\ d >= 1 /\ d <= DaysInMonth(y, m)
        hmOk    == /\ n >= 16
                   /\ IsDigits(s, 12, 13) /\ s[14] = ":"
                   /\ IsDigits(s, 15, 16)
        hasSec  == /\ n >= 19 /\ s[17] = ":" /\ IsDigits(s, 18, 19)
        zstart  == IF hasSec THEN 20 ELSE 17
        zone    == ParseZone(SubSeq(s, zstart, n))
        hh      == NumVal(s, 12, 13)
        mi      == NumVal(s, 15, 16)
        ss      == IF hasSec THEN NumVal(s, 18, 19) ELSE 0
    IN  IF ~civilOk THEN NoDatetime
        ELSE IF n = 10
        THEN [ok |-> TRUE, aware |-> FALSE, y |-> y, m |-> m, d |-> d,
              hh |-> 0, mi |-> 0, ss |-> 0, off |-> 0]
        ELSE IF hmOk /\ zone.ok /\ hh <= 23 /\ mi <= 59 /\ ss <= 59
        THEN [ok |-> TRUE, aware |-> zone.aware, y |-> y, m |-> m, d |-> d,
              hh |-> hh, mi |-> mi, ss |-> ss, off |-> zone.off]
        ELSE NoDatetime

\* match_dt.replace(tzinfo=timezone.utc) when match_dt.tzinfo is None.
EnsureAware(dt) == IF dt.aware THEN dt ELSE [dt EXCEPT !.aware = TRUE, !.off = 0]

\* The instant of an aware datetime, in seconds since 2000-01-01T00:00Z:
\* what the comparison of two aware datetimes compares.
Instant(dt) ==
    ((DaysFromCivil(dt.y, dt.m, dt.d) * 24 + dt.hh) * 60 + dt.mi - dt.off) * 60
        + dt.ss

\* dt.date(): the calendar date as written, whatever the offset.
DateOf(dt) == << dt.y, dt.m, dt.d >>

(***************************************************************************)
(* Exceptions                                                              *)
(***************************************************************************)

\* The direct base class of each exception class the core meets.
Parent(c) ==
    CASE c = "MatchdayAuthError"      -> "MatchdayApiError"
      [] c = "MatchdayRateLimitError" -> "MatchdayApiError"
      [] c = "ClientResponseError"    -> "ClientError"
      [] c = "UnicodeDecodeError"     -> "ValueError"
      [] c = "JSONDecodeError"        -> "ValueError"
      [] c = "ConfigEntryAuthFailed"  -> "HomeAssistantError"
      [] c = "UpdateFailed"           -> "HomeAssistantError"
      [] OTHER                        -> "Exception"

\* isinstance(e, c) for an exception of class e.
RECURSIVE IsInstance(_, _)
IsInstance(e, c) ==
    \/ e = c
    \/ e # "Exception" /\ IsInstance(Parent(e), c)

\* A try statement's except clauses, tried in order: the first clause one of
\* whose classes the exception is an instance of decides what leaves the
\* statement; raises = "same" re-raises, "swallow" ends the statement
\* normally.  An exception no clause matches propagates.
RECURSIVE Catch(_, _)
Catch(e, clauses) ==
    IF Len(clauses) = 0 THEN e
    ELSE IF \E c \in clauses[1].classes : IsInstance(e, c)
         THEN (IF clauses[1].raises = "same" THEN e ELSE clauses[1].raises)
         ELSE Catch(e, Tail(clauses))

(***************************************************************************)
(* JSON values of an `errors` field                                        *)
(***************************************************************************)

\* A JSON string or number inside an `errors` field.
JStr(s) == [t |-> "str", s |-> s, n |-> 0]
JInt(n) == [t |-> "int", s |-> << >>, n |-> n]

\* str(v)
PyStr(v) == IF v.t = "str" THEN v.s ELSE StrInt(v.n)

\* The `errors` field: t is absent (no such key), null, dict, list, str or
\* int; ks are a dict's keys and vs its values in insertion order (a list has
\* only vs, a str or int is vs[1]).
ErrAbsent == [t |-> "absent", ks |-> << >>, vs |-> << >>]
ErrNull == [t |-> "null", ks |-> << >>, vs |-> << >>]
ErrDict(ks, vs) == [t |-> "dict", ks |-> ks, vs |-> vs]
ErrList(vs) == [t |-> "list", ks |-> << >>, vs |-> vs]
ErrScalar(v) == [t |-> v.t, ks |-> << >>, vs |-> << v >>]

\* bool(errors)
Truthy(errors) ==
    CASE errors.t \in {"absent", "null"} -> FALSE
      [] errors.t \in {"dict", "list"}   -> Len(errors.vs) > 0
      [] errors.t = "str"                -> Len(errors.vs[1].s) > 0
      [] errors.t = "int"                -> errors.vs[1].n # 0

(***************************************************************************)
(* Values shared by the clients and the coordinator                        *)
(***************************************************************************)

\* A fixture in the API-Football shape, with the fields the core reads:
\* fixture.id, fixture.status.short and fixture.date.  status = NoStatus is
\* a fixture without a status entry; date = << >> is a date that is None,
\* missing or "" (the three are falsy alike).
NoStatus == "<no status>"

Fixture(id, status, date) == [id |-> id, status |-> status, date |-> date]

\* An optional value (a dict or None) is a sequence of length 1 or 0.
None == << >>
Some(v) == << v >>

\* bool(v) of an optional dict: the dicts of the model are never empty.
IsPresent(opt) == Len(opt) > 0

\* The datetime datetime.now(tz=timezone.utc) returns.
UtcNow(y, m, d, hh, mi) ==
    [ok |-> TRUE, aware |-> TRUE, y |-> y, m |-> m, d |-> d,
     hh |-> hh, mi |-> mi, ss |-> 0, off |-> 0]

(***************************************************************************)
(* The keyed client (api.py)                                               *)
(***************************************************************************)

kToken == << "t", "o", "k", "e", "n" >>
kKey == << "k", "e", "y" >>
kLimit == << "l", "i", "m", "i", "t" >>
kRequests == << "r", "e", "q", "u", "e", "s", "t", "s" >>
SepBar == << " ", "|", " " >>

\* err_msg: the message built from a truthy `errors` field.  A dict gives
\* its values only, joined; its keys are not part of the message.
ErrMsg(errors) ==
    IF errors.t = "dict"
    THEN Join(SepBar, [i \in 1..Len(errors.vs) |-> PyStr(errors.vs[i])])
    ELSE IF errors.t = "list" /\ Len(errors.vs) > 0
    THEN Join(SepBar, [i \in 1..Len(errors.vs) |-> PyStr(errors.vs[i])])
    ELSE PyStr(errors.vs[1])

\* A variant of ClassifyErrMsg: the quota keywords are tested first.
ClassifyErrMsg_QuotaFirst(msg) ==
    IF Contains(kLimit, Lower(msg)) \/ Contains(kRequests, Lower(msg))
    THEN "MatchdayRateLimitError"
    ELSE IF Contains(kToken, Lower(msg)) \/ Contains(kKey, Lower(msg))
    THEN "MatchdayAuthError"
    ELSE "MatchdayApiError"

\* The exception raised for a truthy `errors` field.
ClassifyErrMsg(msg) ==
    IF Contains(kToken, Lower(msg)) \/ Contains(kKey, Lower(msg))
    THEN "MatchdayAuthError"
    ELSE IF Contains(kLimit, Lower(msg)) \/ Contains(kRequests, Lower(msg))
    THEN "MatchdayRateLimitError"
    ELSE "MatchdayApiError"

\* response.raise_for_status() of aiohttp: raises ClientResponseError when
\* the status is 400 or more (response.ok is status < 400).
RaiseForStatus(status) == IF status >= 400 THEN "ClientResponseError" ELSE "none"

\* The except clauses of the try statement around the HTTP exchange.
RequestExceptClauses ==
    << [classes |-> {"MatchdayAuthError", "MatchdayRateLimitError"},
        raises |-> "same"],
       [classes |-> {"ClientError", "TimeoutError"},
        raises |-> "MatchdayApiError"],
       [classes |-> {"Exception"}, raises |-> "MatchdayApiError"] >>

\* What the body of that try statement raises ("none": it reached the end).
\* An HTTP exchange x: connect is the exception of session.get ("none" when
\* a response arrived), status the response status, read the exception of
\* response.text(), body the JSON value the text denotes.
RequestTryBody(x) ==
    IF x.connect # "none" THEN x.connect
    ELSE IF x.status = 401 THEN "MatchdayAuthError"
    ELSE IF x.status = 499 THEN "MatchdayRateLimitError"
    ELSE IF RaiseForStatus(x.status) # "none" THEN RaiseForStatus(x.status)
    ELSE x.read

\* MatchdayApiClient._request: the class of the exception it raises, or
\* "none" when it returns the decoded body x.body.
\* body.kind is "nonjson" (json.loads raises), "object", "array" or "scalar".
MatchdayApiClient_request(x) ==
    LET first == RequestTryBody(x)
    IN  IF first # "none" THEN Catch(first, RequestExceptClauses)
        ELSE IF x.body.kind = "nonjson"
        THEN Catch("JSONDecodeError",
                   << [classes |-> {"ValueError"}, raises |-> "MatchdayApiError"] >>)
        ELSE IF x.body.kind # "object" THEN "AttributeError"
        ELSE IF Truthy(x.body.errors) THEN ClassifyErrMsg(ErrMsg(x.body.errors))
        ELSE "none"

\* The except clauses of validate_api_key: both return False.
ValidateExceptClauses ==
    << [classes |-> {"MatchdayAuthError"}, raises |-> "swallow"],
       [classes |-> {"MatchdayApiError"}, raises |-> "swallow"] >>

\* MatchdayApiClient.validate_api_key on the exchange of its status request:
\* the exception that leaves it ("none" when it returns) and the value
\* returned.  response.t is the JSON type of the `response` field and
\* response.account that of its `account` field ("absent": no such key).
validate_api_key(x) ==
    LET r == MatchdayApiClient_request(x)
        e == IF r = "none" THEN "none" ELSE Catch(r, ValidateExceptClauses)
    IN  IF r # "none"
        THEN [raised |-> IF e = "swallow" THEN "none" ELSE e, ret |-> FALSE]
        ELSE IF x.body.response.t # "dict"
        THEN [raised |-> "none", ret |-> FALSE]
        ELSE [raised |-> "none",
              ret |-> x.body.response.account.t \notin {"absent", "null"}]

\* A counter of the status payload: t is "absent" (no such key), "null",
\* "int" or "str", and n the number.
Counter(t, n) == [t |-> t, n |-> n]

\* requests_info.get(key, 0)
CounterOrZero(c) == IF c.t = "absent" THEN Counter("int", 0) ELSE c

\* max(0, a)
Max0(a) == IF a < 0 THEN 0 ELSE a

\* max(0, limit - used)
RemainingOf(limit, used) == Max0(limit - used)

\* The except clause of get_quota_remaining: it returns None.
QuotaExceptClauses ==
    << [classes |-> {"MatchdayApiError"}, raises |-> "swallow"] >>

\* The try body of get_quota_remaining once _request has returned the
\* object x.body: the exception it raises ("none" when it returns) and the
\* value returned.  response.t is the JSON type of `response` ("absent": no
\* such key) and response.requests its `requests` field, with the type
\* requests.t and the counters limit_day and current.
QuotaFromBody(body) ==
    LET response == body.response
        requests == response.requests
        limit    == CounterOrZero(requests.limit_day)
        used     == CounterOrZero(requests.current)
    IN  IF response.t \notin {"absent", "dict"}
        THEN [raised |-> "none", ret |-> None]
        ELSE IF response.t = "absent" \/ requests.t = "absent"
        THEN [raised |-> "none", ret |-> Some(RemainingOf(0, 0))]
        ELSE IF requests.t # "dict"
        THEN [raised |-> "AttributeError", ret |-> None]
        ELSE IF limit.t # "int" \/ used.t # "int"
        THEN [raised |-> "TypeError", ret |-> None]
        ELSE [raised |-> "none", ret |-> Some(RemainingOf(limit.n, used.n))]

\* MatchdayApiClient.get_quota_remaining on the exchange of its status
\* request.
get_quota_remaining(x) ==
    LET r == MatchdayApiClient_request(x)
        e == IF r = "none" THEN QuotaFromBody(x.body).raised ELSE r
        c == IF e = "none" THEN "none" ELSE Catch(e, QuotaExceptClauses)
    IN  IF c = "none" THEN QuotaFromBody(x.body)
        ELSE [raised |-> IF c = "swallow" THEN "none" ELSE c, ret |-> None]

\* What an operation of a client gives the coordinator: the exception it
\* raises ("none" when it returns) and the list it returns.
\* requests counts the HTTP requests the operation issued.
Raised(e) == [raised |-> e, items |-> << >>, requests |-> 1]
Returned(items) == [raised |-> "none", items |-> items, requests |-> 1]

\* A variant of WithoutRequest: the request is issued before the test.
WithoutRequest_RequestFirst(r) == r

\* The operation ended before it called _request.
WithoutRequest(r) == [r EXCEPT !.requests = 0]

\* A variant of SortsBeforeByName: letter case is ignored.
SortsBeforeByName_IgnoreCase(x, e) == StrLess(Lower(x.name), Lower(e.name))

\* x goes before e in the order of sorted(teams, key=name).  A team is its
\* team.id and its team.name, "" when it has none.
SortsBeforeByName(x, e) == StrLess(x.name, e.name)

\* x inserted into a sorted list before the first element it goes before:
\* elements with equal names keep their order.
RECURSIVE InsertByName(_, _)
InsertByName(x, sorted) ==
    IF Len(sorted) = 0 THEN << x >>
    ELSE IF SortsBeforeByName(x, Head(sorted)) THEN << x >> \o sorted
    ELSE << Head(sorted) >> \o InsertByName(x, Tail(sorted))

\* sorted(teams, key=lambda t: t.get("team", {}).get("name", "")): a stable
\* sort.
RECURSIVE SortByName(_)
SortByName(list) ==
    IF Len(list) = 0 THEN << >>
    ELSE InsertByName(list[Len(list)], SortByName(SubSeq(list, 1, Len(list) - 1)))

\* MatchdayApiClient.get_teams on the exchange of its request.
MatchdayApiClient_get_teams(x) ==
    IF MatchdayApiClient_request(x) # "none"
    THEN Raised(MatchdayApiClient_request(x))
    ELSE IF x.body.response.t = "absent" THEN Returned(SortByName(<< >>))
    ELSE IF x.body.response.t # "list" THEN Returned(<< >>)
    ELSE Returned(SortByName(x.body.response.items))

\* data.get("response", []) of a decoded body whose `response` is a list
\* (response.t = "list") or missing (response.t = "absent").
ResponseOrEmpty(body) ==
    IF body.response.t = "absent" THEN Returned(<< >>)
    ELSE Returned(body.response.items)

\* MatchdayApiClient.get_fixtures on the exchange of its request.
MatchdayApiClient_get_fixtures(x) ==
    IF MatchdayApiClient_request(x) # "none"
    THEN Raised(MatchdayApiClient_request(x))
    ELSE ResponseOrEmpty(x.body)

\* MatchdayApiClient.get_standings on the exchange of its request.
MatchdayApiClient_get_standings(x) ==
    IF MatchdayApiClient_request(x) # "none"
    THEN Raised(MatchdayApiClient_request(x))
    ELSE ResponseOrEmpty(x.body)

(***************************************************************************)
(* The keyless client (api_openligadb.py)                                  *)
(***************************************************************************)

\* The league ids with an OpenLigaDB shortcut (the keys of
\* OPENLIGADB_LEAGUE_SHORTCUTS).
OPENLIGADB_LEAGUE_SHORTCUTS == {78, 79, 81}

\* The except clauses of the try statement around the HTTP exchange.
OpenLigaDbExceptClauses ==
    << [classes |-> {"ClientError", "TimeoutError"}, raises |-> "OpenLigaDbError"],
       [classes |-> {"Exception"}, raises |-> "OpenLigaDbError"] >>

\* What the body of that try statement raises.
OpenLigaDbTryBody(x) ==
    IF x.connect # "none" THEN x.connect
    ELSE IF RaiseForStatus(x.status) # "none" THEN RaiseForStatus(x.status)
    ELSE x.read

\* OpenLigaDbClient._request: the exception it raises, or "none" when it
\* returns the decoded body (of any JSON type).
OpenLigaDbClient_request(x) ==
    IF OpenLigaDbTryBody(x) # "none"
    THEN Catch(OpenLigaDbTryBody(x), OpenLigaDbExceptClauses)
    ELSE IF x.body.kind = "nonjson"
    THEN Catch("JSONDecodeError",
               << [classes |-> {"ValueError"}, raises |-> "OpenLigaDbError"] >>)
    ELSE "none"

\* str.replace("Z", "+00:00")
RECURSIVE ReplaceZ(_)
ReplaceZ(s) ==
    IF Len(s) = 0 THEN << >>
    ELSE (IF Head(s) = "Z" THEN << "+", "0", "0", ":", "0", "0" >>
          ELSE << Head(s) >>) \o ReplaceZ(Tail(s))

\* _parse_utc: a UTC-aware datetime, or ok = FALSE for None.
_parse_utc(date_str) ==
    IF Len(date_str) = 0 THEN NoDatetime
    ELSE IF ~fromisoformat(ReplaceZ(date_str)).ok THEN NoDatetime
    ELSE EnsureAware(fromisoformat(ReplaceZ(date_str)))

\* The status short code _normalize_fixture derives.  A match record has
\* finished (matchIsFinished), utc (matchDateTimeUTC) and localdt
\* (matchDateTime), a missing or empty timestamp being << >>.
MatchDateStr(match) ==
    IF Len(match.utc) > 0 THEN match.utc ELSE match.localdt

MatchStatus(match, now) ==
    LET match_dt == _parse_utc(MatchDateStr(match))
        seconds_since_ko == Instant(now) - Instant(match_dt)
    IN  IF match.finished THEN "FT"
        ELSE IF match_dt.ok
        THEN (IF 0 <= seconds_since_ko /\ seconds_since_ko <= 150 * 60
              THEN "LIVE" ELSE "NS")
        ELSE "NS"

\* _normalize_fixture
_normalize_fixture(match, now) ==
    Fixture(match.matchID, MatchStatus(match, now), MatchDateStr(match))

\* match.get("matchResults") or []
ResultsOrEmpty(match) ==
    IF match.results.t = "list" THEN match.results.items ELSE << >>

\* next((r for r in results if r.get("resultTypeID") == type), None): the
\* first entry of that type, as a list of at most one entry.
FirstOfType(results, type) ==
    LET hits == {i \in 1..Len(results) : results[i].resultTypeID = type}
    IN  IF hits = {} THEN None
        ELSE Some(results[CHOOSE i \in hits : \A j \in hits : i <= j])

\* A variant of EntryScore: no entry gives 0 : 0.
EntryScore_Zero(entry) ==
    IF IsPresent(entry)
    THEN [home |-> Some(entry[1].pointsTeam1), away |-> Some(entry[1].pointsTeam2)]
    ELSE [home |-> Some(0), away |-> Some(0)]

\* entry["pointsTeam1"] if entry else None, and the same for pointsTeam2.
EntryScore(entry) ==
    IF IsPresent(entry)
    THEN [home |-> Some(entry[1].pointsTeam1), away |-> Some(entry[1].pointsTeam2)]
    ELSE [home |-> None, away |-> None]

\* The `goals` of the fixture _normalize_fixture returns.
MatchGoals(match) == EntryScore(FirstOfType(ResultsOrEmpty(match), 2))

\* The `score.halftime` of the fixture _normalize_fixture returns.
MatchHalftime(match) == EntryScore(FirstOfType(ResultsOrEmpty(match), 1))

\* The fixture _normalize_fixture returns, with its scores.
NormalizedMatch(match, now) ==
    [fixture |-> _normalize_fixture(match, now), goals |-> MatchGoals(match),
     halftime |-> MatchHalftime(match)]

\* A variant of PlaysIn: only the home side is looked at.
PlaysIn_HomeOnly(team_id, match) == team_id = match.team1

\* team_id in (home_id, away_id), the ids being teamId of team1 and of team2.
PlaysIn(team_id, match) == team_id \in {match.team1, match.team2}

\* The loop of OpenLigaDbClient.get_fixtures from match i on: the matches of
\* the tracked team, normalized, in source order.  A match that is no JSON
\* object (shape # "dict") ends the loop with AttributeError.
RECURSIVE NormalizeTeamMatches(_, _, _, _, _)
NormalizeTeamMatches(raw, i, team_id, now, acc) ==
    IF i > Len(raw) THEN acc
    ELSE IF raw[i].shape # "dict" THEN Raised("AttributeError")
    ELSE IF ~PlaysIn(team_id, raw[i])
    THEN NormalizeTeamMatches(raw, i + 1, team_id, now, acc)
    ELSE NormalizeTeamMatches(raw, i + 1, team_id, now,
             [acc EXCEPT !.items = Append(@, _normalize_fixture(raw[i], now))])

\* OpenLigaDbClient.get_fixtures on the exchange of its request; no request
\* is made for a league without a shortcut.
OpenLigaDbClient_get_fixtures(league_id, team_id, x, now) ==
    IF league_id \notin OPENLIGADB_LEAGUE_SHORTCUTS
    THEN WithoutRequest(Raised("OpenLigaDbError"))
    ELSE IF OpenLigaDbClient_request(x) # "none"
    THEN Raised(OpenLigaDbClient_request(x))
    ELSE IF x.body.kind # "array" THEN Returned(<< >>)
    ELSE NormalizeTeamMatches(x.body.items, 1, team_id, now,
                              Returned(<< >>))

\* _normalize_team: team.id and team.name of the entry returned; teamName
\* is None or Some(name), and a missing name becomes "".
_normalize_team(team) ==
    [id |-> team.teamId,
     name |-> IF IsPresent(team.teamName) THEN team.teamName[1] ELSE << >>]

\* OpenLigaDbClient.get_teams on the exchange of its request.
OpenLigaDbClient_get_teams(league_id, x) ==
    IF league_id \notin OPENLIGADB_LEAGUE_SHORTCUTS
    THEN WithoutRequest(Raised("OpenLigaDbError"))
    ELSE IF OpenLigaDbClient_request(x) # "none"
    THEN Raised(OpenLigaDbClient_request(x))
    ELSE IF x.body.kind # "array" THEN Returned(<< >>)
    ELSE Returned(SortByName([i \in 1..Len(x.body.items) |->
                                 _normalize_team(x.body.items[i])]))

\* A variant of RankAt: enumerate(table) without start=1.
RankAt_ZeroBased(i) == i - 1

\* enumerate(table, start=1): the rank of the row at position i (1-based).
RankAt(i) == i

\* _normalize_standings: one league item with one group, a row of the table
\* becoming the entry of its team with rank equal to its position.
_normalize_standings(table) ==
    << << [i \in 1..Len(table) |->
             [team |-> table[i].teamInfoId, rank |-> RankAt(i),
              form |-> None, description |-> None]] >> >>

\* OpenLigaDbClient.get_standings on the exchange of its request.
OpenLigaDbClient_get_standings(league_id, x) ==
    IF league_id \notin OPENLIGADB_LEAGUE_SHORTCUTS
    THEN WithoutRequest(Raised("OpenLigaDbError"))
    ELSE IF OpenLigaDbClient_request(x) # "none"
    THEN Raised(OpenLigaDbClient_request(x))
    ELSE IF x.body.kind # "array" THEN Returned(<< >>)
    ELSE Returned(_normalize_standings(x.body.items))

(***************************************************************************)
(* The coordinator (coordinator.py)                                        *)
(***************************************************************************)

SCAN_INTERVAL_DEFAULT == 30
SCAN_INTERVAL_MATCHDAY == 5
SCAN_INTERVAL_LIVE == 1

LIVE_STATUS_CODES == {"1H", "HT", "2H", "ET", "BT", "P", "SUSP", "INT", "LIVE"}
FINISHED_STATUS_CODES == {"FT", "AET", "PEN"}

\* A variant of KeepLive: the first live fixture met is kept.
KeepLive_First(held, fixture) == IF IsPresent(held) THEN held ELSE Some(fixture)

\* live = fixture: the live fixture met last replaces the one held.
KeepLive(held, fixture) == Some(fixture)

\* The loop of _process_fixtures from fixture i on; acc holds the locals
\* live, upcoming and past, and raised the exception that ended the loop.
RECURSIVE ScanFixtures(_, _, _, _)
ScanFixtures(fixtures, i, now, acc) ==
    IF i > Len(fixtures) THEN acc
    ELSE
      LET f  == fixtures[i]
          dt == fromisoformat(f.date)
      IN  IF f.status = NoStatus
          THEN [acc EXCEPT !.raised = "KeyError"]
          ELSE IF f.status \in LIVE_STATUS_CODES
          THEN ScanFixtures(fixtures, i + 1, now, [acc EXCEPT !.live = KeepLive(@, f)])
          ELSE IF Len(f.date) = 0
          THEN ScanFixtures(fixtures, i + 1, now, acc)
          ELSE IF ~dt.ok
          THEN ScanFixtures(fixtures, i + 1, now, acc)
          ELSE IF \/ f.status \in FINISHED_STATUS_CODES
                  \/ Instant(EnsureAware(dt)) <= Instant(now)
          THEN ScanFixtures(fixtures, i + 1, now,
                            [acc EXCEPT !.past = Append(@, f)])
          ELSE ScanFixtures(fixtures, i + 1, now,
                            [acc EXCEPT !.upcoming = Append(@, f)])

\* A variant of SortsBefore: both sorts ascending.
SortsBefore_Ascending(x, e, reverse) == StrLess(x.date, e.date)

\* x goes before e in the order of list.sort(key=date, reverse=reverse).
SortsBefore(x, e, reverse) ==
    IF reverse THEN StrLess(e.date, x.date) ELSE StrLess(x.date, e.date)

\* x inserted into a sorted list before the first element it goes before:
\* elements with equal keys keep their order.
RECURSIVE InsertSorted(_, _, _)
InsertSorted(x, sorted, reverse) ==
    IF Len(sorted) = 0 THEN << x >>
    ELSE IF SortsBefore(x, Head(sorted), reverse) THEN << x >> \o sorted
    ELSE << Head(sorted) >> \o InsertSorted(x, Tail(sorted), reverse)

\* list.sort(key=lambda f: f["fixture"]["date"], reverse=reverse): a stable
\* sort by the raw date string.
RECURSIVE SortByDate(_, _)
SortByDate(list, reverse) ==
    IF Len(list) = 0 THEN << >>
    ELSE InsertSorted(list[Len(list)],
                      SortByDate(SubSeq(list, 1, Len(list) - 1), reverse),
                      reverse)

\* lst[0] if lst else None
FirstOrNone(lst) == IF Len(lst) > 0 THEN Some(lst[1]) ELSE None

\* The end of _process_fixtures: the two sorts and the dict returned, with
\* the sorted locals upcoming and past beside its three fields.
ProcessResult(live, upcoming, past) ==
    [raised |-> "none", live |-> live, upcoming |-> upcoming, past |-> past,
     next_match |-> FirstOrNone(upcoming), last_match |-> FirstOrNone(past)]

SortBuckets(acc) ==
    IF acc.raised # "none"
    THEN [raised |-> acc.raised, live |-> None, upcoming |-> << >>,
          past |-> << >>, next_match |-> None, last_match |-> None]
    ELSE ProcessResult(acc.live, SortByDate(acc.upcoming, FALSE),
                       SortByDate(acc.past, TRUE))

\* MatchdayCoordinator._process_fixtures: the exception that leaves it
\* ("none" when it returns) and the result.
_process_fixtures(fixtures, now) ==
    SortBuckets(ScanFixtures(fixtures, 1, now,
                    [raised |-> "none", live |-> None,
                     upcoming |-> << >>, past |-> << >>]))

\* MatchdayCoordinator._is_today
_is_today(fixture, now) ==
    LET dt == fromisoformat(fixture.date)
    IN  IF Len(fixture.date) = 0 THEN FALSE
        ELSE IF ~dt.ok THEN FALSE
        ELSE DateOf(EnsureAware(dt)) = DateOf(now)

\* A variant of NewInterval: the match-day test comes before the live test.
NewInterval_MatchdayFirst(live, next_match, now) ==
    IF IsPresent(next_match) /\ _is_today(next_match[1], now)
    THEN SCAN_INTERVAL_MATCHDAY
    ELSE IF IsPresent(live) THEN SCAN_INTERVAL_LIVE
    ELSE SCAN_INTERVAL_DEFAULT

\* The interval _adjust_poll_interval selects, in minutes.
NewInterval(live, next_match, now) ==
    IF IsPresent(live) THEN SCAN_INTERVAL_LIVE
    ELSE IF IsPresent(next_match) /\ _is_today(next_match[1], now)
    THEN SCAN_INTERVAL_MATCHDAY
    ELSE SCAN_INTERVAL_DEFAULT

\* A variant of Reassigns: the interval is assigned on every call.
Reassigns_Always(current, new_interval) == TRUE

\* if self.update_interval != new_interval: the interval is assigned only
\* when the one selected differs from the current one.
Reassigns(current, new_interval) == current # new_interval

\* MatchdayCoordinator._adjust_poll_interval: update_interval afterwards.
_adjust_poll_interval(current, live, next_match, now) ==
    IF Reassigns(current, NewInterval(live, next_match, now))
    THEN NewInterval(live, next_match, now)
    ELSE current

\* The entries of all groups of all league items, in scan order.  A league
\* item is the list of its groups (league.standings), a group the list of
\* its entries, an entry has team (team.id) and rank.
RECURSIVE FlattenSeq(_)
FlattenSeq(ss) ==
    IF Len(ss) = 0 THEN << >> ELSE Head(ss) \o FlattenSeq(Tail(ss))

\* A variant of _extract_standing: only the first league item is scanned.
_extract_standing_FirstItem(standings, team_id) ==
    LET entries == IF Len(standings) = 0 THEN << >>
                   ELSE FlattenSeq(standings[1])
        hits    == {i \in 1..Len(entries) : entries[i].team = team_id}
    IN  IF hits = {} THEN None
        ELSE Some(entries[CHOOSE i \in hits : \A j \in hits : i <= j])

\* MatchdayCoordinator._extract_standing
_extract_standing(standings, team_id) ==
    LET entries == FlattenSeq(FlattenSeq(standings))
        hits    == {i \in 1..Len(entries) : entries[i].team = team_id}
    IN  IF hits = {} THEN None
        ELSE Some(entries[CHOOSE i \in hits : \A j \in hits : i <= j])

\* A variant of UpdateExceptClauses: the clause of the base class first.
UpdateExceptClauses_BaseFirst ==
    << [classes |-> {"MatchdayApiError"}, raises |-> "UpdateFailed"],
       [classes |-> {"MatchdayAuthError"}, raises |-> "ConfigEntryAuthFailed"],
       [classes |-> {"MatchdayRateLimitError"}, raises |-> "UpdateFailed"] >>

\* The except clauses of _async_update_data around the two fetches.
UpdateExceptClauses ==
    << [classes |-> {"MatchdayAuthError"}, raises |-> "ConfigEntryAuthFailed"],
       [classes |-> {"MatchdayRateLimitError"}, raises |-> "UpdateFailed"],
       [classes |-> {"MatchdayApiError"}, raises |-> "UpdateFailed"] >>

\* The dict _async_update_data returns: the three fields of
\* _process_fixtures and the standing added to them.
PollingResult(live, next_match, last_match, standing_entry) ==
    [live |-> live, next_match |-> next_match, last_match |-> last_match,
     standing |-> standing_entry]

\* A variant of ProcessFetched: the dict is returned as _process_fixtures
\* gave it, its standing never filled in.
ProcessFetched_NoStanding(fetched_fixtures, fetched_standings, tracked, now) ==
    LET p == _process_fixtures(fetched_fixtures, now)
    IN  [raised |-> p.raised, proc |-> p, standing |-> None,
         result |-> IF p.raised # "none" THEN None
                    ELSE Some(PollingResult(p.live, p.next_match,
                                            p.last_match, None))]

\* What _async_update_data does once both fetches have returned: the
\* exception that leaves it ("none" when it returns the result), what
\* _process_fixtures gave and the standing extracted.
ProcessFetched(fetched_fixtures, fetched_standings, tracked, now) ==
    LET p == _process_fixtures(fetched_fixtures, now)
        s == IF p.raised # "none" THEN None
             ELSE _extract_standing(fetched_standings, tracked)
    IN  [raised |-> p.raised, proc |-> p, standing |-> s,
         result |-> IF p.raised # "none" THEN None
                    ELSE Some(PollingResult(p.live, p.next_match,
                                            p.last_match, s))]

\* A variant of IntervalAfterUpdate: the interval is also recomputed, from an
\* empty result, when the refresh fails.
IntervalAfterUpdate_AdjustAlways(current, raised, live, next_match, now) ==
    IF raised # "none" THEN _adjust_poll_interval(current, None, None, now)
    ELSE _adjust_poll_interval(current, live, next_match, now)

\* update_interval after _async_update_data: an exception raised by a fetch
\* or by the processing leaves the function before _adjust_poll_interval.
IntervalAfterUpdate(current, raised, live, next_match, now) ==
    IF raised # "none" THEN current
    ELSE _adjust_poll_interval(current, live, next_match, now)

\* Whether _async_update_data assigned update_interval: only a call of
\* _adjust_poll_interval that selects another interval does.
AssignedByUpdate(current, raised, live, next_match, now) ==
    IF raised # "none" THEN FALSE
    ELSE Reassigns(current, NewInterval(live, next_match, now))

(***************************************************************************)
(* Inputs: the bounded sets the checks draw responses and clock readings   *)
(* from                                                                    *)
(***************************************************************************)

\* The longest fixture list given to _process_fixtures on its own.
MaxFixtures == 3

\* The longest fixture, match and table list of a response in a refresh.
MaxCycleItems == 2

\* The most entries of an `errors` dict or list.
MaxErrItems == 2

\* All sequences over S of length at most n.
SeqsUpTo(S, n) == UNION {[1..k -> S] : k \in 0..n}

\* A kickoff timestamp of May 2024 as the providers write it.
MkDate(d, hh, mi, zone) ==
    << "2", "0", "2", "4", "-", "0", "5", "-" >> \o Str2(d) \o << "T" >>
        \o Str2(hh) \o << ":" >> \o Str2(mi) \o << ":", "0", "0" >> \o zone

zUtc == << "+", "0", "0", ":", "0", "0" >>
zPlus2 == << "+", "0", "2", ":", "0", "0" >>
zZ == << "Z" >>
zNaive == << >>

\* A date that is missing, None or "".
NoDate == << >>

\* A date no ISO parser accepts.
BadDate == << "T", "B", "D" >>

\* Kickoff timestamps: three with the +00:00 suffix of API-Football and one
\* with a +02:00 suffix, which is 22:30 UTC of the day before its own date.
DateSamples ==
    { MkDate(1, 23, 0, zUtc), MkDate(2, 8, 0, zUtc), MkDate(2, 20, 0, zUtc),
      MkDate(2, 0, 30, zPlus2) }

\* Clock readings: noon and the last minute of 1 May, the first minute and
\* noon of 2 May.
NowSamples ==
    << UtcNow(2024, 5, 1, 12, 0), UtcNow(2024, 5, 1, 23, 59),
       UtcNow(2024, 5, 2, 0, 0), UtcNow(2024, 5, 2, 12, 0) >>

\* Fixture lists for _process_fixtures on its own: fixture i has id i.
StatusSamples == {"NS", "FT", "1H"}

ProcessFixtureLists ==
    { [i \in 1..Len(l) |-> Fixture(i, l[i][1], l[i][2])] :
        l \in SeqsUpTo((StatusSamples \X DateSamples)
                         \cup {<< "1H", NoDate >>, << "NS", NoDate >>,
                               << "FT", BadDate >>,
                               << NoStatus, MkDate(2, 20, 0, zUtc) >>},
                       MaxFixtures) }

\* Fixture lists of a `response` in a refresh.
CycleFixtureLists ==
    { [i \in 1..Len(l) |-> Fixture(i, l[i][1], l[i][2])] :
        l \in SeqsUpTo((StatusSamples \X
                          {MkDate(1, 23, 0, zUtc), MkDate(2, 20, 0, zUtc),
                           MkDate(2, 0, 30, zPlus2), NoDate})
                         \cup {<< NoStatus, MkDate(2, 20, 0, zUtc) >>},
                       MaxCycleItems) }

\* Standings of a `response`: league items, each the list of its groups.
Entry(team, rank) ==
    [team |-> team, rank |-> rank, form |-> Some(<< "W", "D" >>),
     description |-> None]

StandingsSamples ==
    { << >>,
      << << << Entry(1, 1), Entry(2, 2) >> >> >>,
      << << << Entry(2, 1) >>, << Entry(3, 1) >> >> >>,
      << << << Entry(2, 1) >> >>, << << Entry(3, 1) >>, << Entry(1, 4) >> >> >>,
      << << << Entry(1, 1) >>, << Entry(1, 2), Entry(2, 3) >> >> >> }

\* A body of the keyed API: kind, the `errors` field, the `response` field.
ObjectBody(errors, response) ==
    [kind |-> "object", errors |-> errors, response |-> response]
OtherBody(kind) ==
    [kind |-> kind, errors |-> ErrAbsent,
     response |-> [t |-> "absent", items |-> << >>]]
ListResponse(items) == [t |-> "list", items |-> items]

\* An HTTP exchange.
Exchange(connect, status, read, body) ==
    [connect |-> connect, status |-> status, read |-> read, body |-> body]

sExpired == << "e", "x", "p", "i", "r", "e", "d" >>
sMissingKey ==
    << "M", "i", "s", "s", "i", "n", "g", " ", "a", "p", "p", "l", "i", "c",
       "a", "t", "i", "o", "n", " ", "K", "E", "Y" >>
sLimitReached ==
    << "r", "e", "q", "u", "e", "s", "t", " ", "L", "I", "M", "I", "T", " ",
       "r", "e", "a", "c", "h", "e", "d" >>
sTooMany ==
    << "T", "o", "o", " ", "m", "a", "n", "y", " ", "R", "e", "q", "u", "e",
       "s", "t", "s" >>
sBoom == << "b", "o", "o", "m" >>
sRateLimit == << "r", "a", "t", "e", "L", "i", "m", "i", "t" >>
sBug == << "b", "u", "g" >>

\* Exchanges of the keyed API that carry no usable response, whatever the
\* endpoint: transport failures, error statuses, undecodable and non-object
\* bodies, bodies with an `errors` field.
KeyedFailedExchanges ==
    { Exchange(c, 0, "none", OtherBody("nonjson")) : c \in {"ClientError", "TimeoutError"} }
    \cup { Exchange("none", 200, "UnicodeDecodeError", OtherBody("nonjson")) }
    \cup { Exchange("none", st, "none", OtherBody("nonjson")) :
             st \in {200, 401, 404, 499, 500} }
    \cup { Exchange("none", 200, "none", OtherBody("array")) }
    \cup { Exchange("none", 200, "none",
                    ObjectBody(e, [t |-> "list", items |-> << >>])) :
             e \in { ErrDict(<< kToken >>, << JStr(sExpired) >>),
                     ErrDict(<< kToken >>, << JStr(sMissingKey) >>),
                     ErrDict(<< kRequests >>, << JStr(sLimitReached) >>),
                     ErrDict(<< sBug >>, << JStr(sBoom) >>) } }

\* Exchanges of the fixtures request of the keyed client in a refresh.
KeyedFixturesExchanges ==
    KeyedFailedExchanges
    \cup { Exchange("none", 200, "none", ObjectBody(ErrAbsent, ListResponse(l))) :
             l \in CycleFixtureLists }
    \cup { Exchange("none", 200, "none",
                    ObjectBody(ErrList(<< >>), [t |-> "absent", items |-> << >>])) }

\* Exchanges of the standings request of the keyed client in a refresh.
KeyedStandingsExchanges ==
    KeyedFailedExchanges
    \cup { Exchange("none", 200, "none", ObjectBody(ErrAbsent, ListResponse(l))) :
             l \in StandingsSamples }

\* A match record of OpenLigaDB; shape "null" is a list item that is no
\* object.  results is the matchResults field: t is "absent", "null" or
\* "list", and items the entries of a list.
NoResults == [t |-> "absent", items |-> << >>]

Match(id, team1, team2, finished, utc, localdt) ==
    [shape |-> "dict", matchID |-> id, team1 |-> team1, team2 |-> team2,
     finished |-> finished, utc |-> utc, localdt |-> localdt,
     results |-> NoResults]

\* Matches of team 1 (an hour old, late on 1 May, on 2 May, finished, with
\* a local timestamp only), a match of other teams, and a null item.
MatchSamples ==
    { Match(0, 1, 2, FALSE, MkDate(1, 11, 0, zZ), NoDate),
      Match(0, 2, 1, FALSE, MkDate(1, 23, 0, zZ), NoDate),
      Match(0, 1, 3, FALSE, MkDate(2, 20, 0, zZ), NoDate),
      Match(0, 3, 1, TRUE, MkDate(1, 0, 30, zZ), NoDate),
      Match(0, 1, 2, FALSE, NoDate, MkDate(1, 11, 30, zNaive)),
      Match(0, 2, 3, FALSE, MkDate(2, 20, 0, zZ), NoDate),
      [Match(0, 1, 2, FALSE, NoDate, NoDate) EXCEPT !.shape = "null"] }

MatchLists ==
    { [i \in 1..Len(l) |-> [l[i] EXCEPT !.matchID = i]] :
        l \in SeqsUpTo(MatchSamples, MaxCycleItems) }

\* A table row of OpenLigaDB.
TableSamples ==
    { << >>, << [teamInfoId |-> 1], [teamInfoId |-> 2] >>, << [teamInfoId |-> 2] >>,
      << [teamInfoId |-> 3], [teamInfoId |-> 1], [teamInfoId |-> 2] >> }

\* A body of OpenLigaDB: kind and, for an array, its items.
OpenLigaDbBody(kind, items) == [kind |-> kind, items |-> items]

\* Exchanges of OpenLigaDB that carry no list.
OpenLigaDbFailedExchanges ==
    { Exchange(c, 0, "none", OpenLigaDbBody("nonjson", << >>)) :
        c \in {"ClientError", "TimeoutError"} }
    \cup { Exchange("none", 200, "UnicodeDecodeError", OpenLigaDbBody("nonjson", << >>)) }
    \cup { Exchange("none", st, "none", OpenLigaDbBody("nonjson", << >>)) :
             st \in {200, 404, 500} }
    \cup { Exchange("none", 200, "none", OpenLigaDbBody("object", << >>)) }

OpenLigaDbFixturesExchanges ==
    OpenLigaDbFailedExchanges
    \cup { Exchange("none", 200, "none", OpenLigaDbBody("array", l)) : l \in MatchLists }

OpenLigaDbStandingsExchanges ==
    OpenLigaDbFailedExchanges
    \cup { Exchange("none", 200, "none", OpenLigaDbBody("array", l)) : l \in TableSamples }

(***************************************************************************)
(* State                                                                   *)
(***************************************************************************)

VARIABLES
    client,          \* the provider client of the entry: "keyed" or "keyless"
    league_id,       \* the subscription context
    team_id,
    update_interval, \* the coordinator's polling interval, in minutes
    pc,              \* where the coordinator's refresh stands
    prev_interval,   \* update_interval when the current refresh began
    fetch_raised,    \* the exception a fetch of this refresh raised, or "none"
    outcome,         \* how the refresh ended: "result" or the exception raised
    fixtures,        \* the fixture list given to _process_fixtures
    proc,            \* what _process_fixtures gave, with its locals
    standing,        \* the standing of the result
    standings,       \* the standings the fetch of this refresh returned
    result,          \* the dict _async_update_data returned, or None
    now_fetch,       \* the clock reading of the keyless get_fixtures
    now_process,     \* the clock reading of _process_fixtures
    now_adjust,      \* the clock reading of _is_today
    assigned,        \* whether this refresh assigned update_interval
    exchange,        \* the HTTP exchange of a client operation checked alone
    api_pc,          \* where that operation stands
    api_op,          \* its name
    api_raised,      \* the exception that left it, or "none"
    api_ret,         \* the boolean it returned
    match,           \* the match record given to _normalize_fixture
    now_norm,        \* the `now` given to _normalize_fixture
    normalized,      \* the fixture _normalize_fixture returned
    quota,           \* what get_quota_remaining returned: None or a number
    http_requests,   \* the HTTP requests a client operation issued
    teams,           \* the list get_teams returned
    pairing,         \* the `teams` of the fixture given to _opponent
    opponent         \* the team _opponent returned

vars ==
    << client, league_id, team_id, update_interval, pc, prev_interval,
       fetch_raised, outcome, fixtures, proc, standing, standings, result,
       now_fetch, now_process, now_adjust, assigned, exchange, api_pc, api_op,
       api_raised, api_ret,
       match, now_norm, normalized, quota, http_requests, teams, pairing,
       opponent >>

configVars == << client, league_id, team_id >>
cycleVars ==
    << fetch_raised, outcome, fixtures, proc, standing, standings, result,
       now_fetch, now_process, now_adjust, assigned >>
apiVars == << exchange, api_pc, api_op, api_raised, api_ret >>
aloneVars == << match, now_norm, normalized >>
opVars == << quota, http_requests, teams >>
sensorVars == << pairing, opponent >>

\* No call of _process_fixtures has returned.
NoProc ==
    [raised |-> "none", live |-> None, upcoming |-> << >>, past |-> << >>,
     next_match |-> None, last_match |-> None]

\* An exchange that never happened.
NoExchange ==
    [connect |-> "none", status |-> 0, read |-> "none",
     body |-> [kind |-> "nonjson"]]

\* The values of a refresh that has not fetched anything.
CycleCleared ==
    /\ fetch_raised = "none"
    /\ outcome = "none"
    /\ fixtures = << >>
    /\ proc = NoProc
    /\ standing = None
    /\ standings = << >>
    /\ result = None
    /\ now_fetch = NoDatetime
    /\ now_process = NoDatetime
    /\ now_adjust = NoDatetime
    /\ assigned = FALSE

\* No function of the keyless client is checked alone.
NoMatch == Match(0, 0, 0, FALSE, << >>, << >>)
NoNormalized == NormalizedMatch(NoMatch, NoDatetime)

AloneUnused ==
    /\ match = NoMatch
    /\ now_norm = NoDatetime
    /\ normalized = NoNormalized

\* No public operation of a client has been called on its own.
OpsUnused ==
    /\ quota = None
    /\ http_requests = 0
    /\ teams = << >>

\* A side of a fixture: fixture["teams"]["home"] or ["away"].
TeamSide(id) == [id |-> id, name |-> << "F", "C" >> \o StrInt(id)]

\* fixture["teams"]
Pairing(home, away) == [home |-> TeamSide(home), away |-> TeamSide(away)]

\* No sensor has looked an opponent up.
NoPairing == Pairing(0, 0)
SensorUnused ==
    /\ pairing = NoPairing
    /\ opponent = None

\* No client operation is checked alone.
ApiUnused ==
    /\ exchange = NoExchange
    /\ api_pc = "unused"
    /\ api_op = "none"
    /\ api_raised = "none"
    /\ api_ret = FALSE

(***************************************************************************)
(* _process_fixtures on its own: every fixture list at every clock reading *)
(***************************************************************************)

InitProcess ==
    /\ client = "keyed" /\ league_id = 39 /\ team_id = 1
    /\ update_interval = SCAN_INTERVAL_DEFAULT
    /\ prev_interval = SCAN_INTERVAL_DEFAULT
    /\ pc = "process"
    /\ fetch_raised = "none"
    /\ outcome = "none"
    /\ fixtures \in ProcessFixtureLists
    /\ proc = NoProc
    /\ standing = None
    /\ standings = << >>
    /\ result = None
    /\ now_fetch = NoDatetime
    /\ now_process \in {NowSamples[1], NowSamples[4]}
    /\ now_adjust = NoDatetime
    /\ assigned = FALSE
    /\ ApiUnused
    /\ AloneUnused
    /\ OpsUnused
    /\ SensorUnused

Process ==
    /\ pc = "process"
    /\ proc' = _process_fixtures(fixtures, now_process)
    /\ pc' = "processed"
    /\ UNCHANGED << configVars, update_interval, prev_interval, fetch_raised,
                    outcome, fixtures, standing, standings, result,
                    now_fetch, now_process,
                    now_adjust, assigned, apiVars, aloneVars, sensorVars, opVars >>

NextProcess == Process

SpecProcess == InitProcess /\ [][NextProcess]_vars

\* The elements of a sequence.
Range(seq) == {seq[i] : i \in 1..Len(seq)}

\* _process_fixtures has returned normally.
Partitioned == pc = "processed" /\ proc.raised = "none"

\* The fixture's date is missing or unparseable.
IsUndated(f) == Len(f.date) = 0 \/ ~fromisoformat(f.date).ok

\* The fixtures whose date is missing or unparseable.
Undated == {f \in Range(fixtures) : IsUndated(f)}

\* The positions of the fixtures with a live status.
LivePositions == {i \in 1..Len(fixtures) : fixtures[i].status \in LIVE_STATUS_CODES}

\* The three buckets are pairwise disjoint and hold no fixture twice.
BucketsDisjoint ==
    Len(proc.live) + Len(proc.upcoming) + Len(proc.past)
        = Cardinality(Range(proc.live) \cup Range(proc.upcoming) \cup Range(proc.past))

\* C9 as stated: after partitioning, the union of the live, upcoming and past
\* buckets is the input set minus the fixtures with a missing or unparseable
\* date, and no fixture is in two buckets, also with several live fixtures.
C9_UnionIsInputMinusUndated ==
    Partitioned =>
        /\ Range(proc.live) \cup Range(proc.upcoming) \cup Range(proc.past)
               = Range(fixtures) \ Undated
        /\ BucketsDisjoint

\* C9 amended: after partitioning, the union of the buckets is the last
\* fixture with a live status (whatever its date) together with the fixtures
\* without a live status whose date parses; live fixtures before the last one
\* are in no bucket; no fixture is in two buckets.
C9_PartitionKeepsLastLive ==
    Partitioned =>
        /\ Range(proc.live) \cup Range(proc.upcoming) \cup Range(proc.past)
               = { fixtures[i] : i \in
                     { j \in 1..Len(fixtures) :
                         \/ j \in LivePositions /\ \A k \in LivePositions : k <= j
                         \/ j \notin LivePositions /\ ~IsUndated(fixtures[j]) } }
        /\ BucketsDisjoint
        /\ Range(proc.upcoming) \cap Range(proc.past) = {}
        /\ Range(proc.live) \cap (Range(proc.upcoming) \cup Range(proc.past)) = {}

\* A partition of a list with two live fixtures, an undated fixture dropped.
C9_Witness ==
    /\ Partitioned
    /\ Cardinality(LivePositions) >= 2
    /\ Undated \ {fixtures[i] : i \in LivePositions} # {}
    /\ IsPresent(proc.live)

\* The timestamps of the fixtures in the upcoming and past buckets share one
\* format, precision and zone suffix: equal length, equal text after the
\* seconds.
SameTimestampFormat ==
    \A f, g \in Range(proc.upcoming) \cup Range(proc.past) :
        /\ Len(f.date) = Len(g.date)
        /\ SubSeq(f.date, 20, Len(f.date)) = SubSeq(g.date, 20, Len(g.date))

\* The kickoff instant of a fixture in a bucket.
Kickoff(f) == Instant(EnsureAware(fromisoformat(f.date)))

\* C10: given timestamps of one format, next_match is the chronologically
\* earliest upcoming fixture and last_match the chronologically latest past
\* fixture, each absent exactly when its bucket is empty.
C10_NextEarliestLastLatest ==
    (Partitioned /\ SameTimestampFormat) =>
        /\ IsPresent(proc.next_match) <=> Len(proc.upcoming) > 0
        /\ IsPresent(proc.last_match) <=> Len(proc.past) > 0
        /\ IsPresent(proc.next_match) =>
              /\ proc.next_match[1] \in Range(proc.upcoming)
              /\ \A f \in Range(proc.upcoming) :
                    Kickoff(proc.next_match[1]) <= Kickoff(f)
        /\ IsPresent(proc.last_match) =>
              /\ proc.last_match[1] \in Range(proc.past)
              /\ \A f \in Range(proc.past) :
                    Kickoff(f) <= Kickoff(proc.last_match[1])

\* Two upcoming fixtures given latest first and a past one, one format.
C10_Witness ==
    /\ Partitioned /\ SameTimestampFormat
    /\ Len(proc.upcoming) >= 2 /\ Len(proc.past) >= 1
    /\ \E f \in Range(proc.upcoming) :
          /\ f.id < proc.next_match[1].id
          /\ Kickoff(proc.next_match[1]) < Kickoff(f)

\* The last position of the input with a live status.
LastLivePosition == CHOOSE i \in LivePositions : \A k \in LivePositions : k <= i

\* C20: the live value of the result is the last fixture of the input with a
\* live status, whatever its date, also a missing or unparseable one, and
\* absent without such a fixture; neither next_match nor last_match has a
\* live status.
C20_LastLiveWinsWhateverDate ==
    Partitioned =>
        /\ proc.live = IF LivePositions = {} THEN None
                       ELSE Some(fixtures[LastLivePosition])
        /\ IsPresent(proc.next_match) =>
              proc.next_match[1].status \notin LIVE_STATUS_CODES
        /\ IsPresent(proc.last_match) =>
              proc.last_match[1].status \notin LIVE_STATUS_CODES

\* Two live fixtures, the first dated and the second without a date, ahead
\* of an upcoming one: the second is the live value.
C20_Witness ==
    /\ Partitioned
    /\ Len(fixtures) = 3
    /\ LivePositions = {1, 2}
    /\ ~IsUndated(fixtures[1]) /\ IsUndated(fixtures[2])
    /\ proc.live = Some(fixtures[2])
    /\ proc.next_match = Some(fixtures[3])

(***************************************************************************)
(* The coordinator's refresh cycle                                         *)
(***************************************************************************)

\* The entries async_setup_entry builds a coordinator for: the keyed client,
\* the keyless client with a league that has a shortcut, and with one that
\* has none.
Init ==
    /\ \E c \in { << "keyed", 39, 1 >>, << "keyless", 78, 1 >>,
                   << "keyless", 39, 1 >> } :
          client = c[1] /\ league_id = c[2] /\ team_id = c[3]
    /\ update_interval = SCAN_INTERVAL_DEFAULT
    /\ prev_interval = SCAN_INTERVAL_DEFAULT
    /\ pc = "idle"
    /\ CycleCleared
    /\ ApiUnused
    /\ AloneUnused
    /\ OpsUnused
    /\ SensorUnused

\* _async_update_data is called.
StartRefresh ==
    /\ pc = "idle"
    /\ pc' = "fetch_fixtures"
    /\ prev_interval' = update_interval
    /\ fetch_raised' = "none"
    /\ outcome' = "running"
    /\ fixtures' = << >>
    /\ proc' = NoProc
    /\ standing' = None
    /\ standings' = << >>
    /\ result' = None
    /\ now_fetch' = NoDatetime
    /\ now_process' = NoDatetime
    /\ now_adjust' = NoDatetime
    /\ assigned' = FALSE
    /\ UNCHANGED << configVars, update_interval, apiVars, aloneVars, sensorVars, opVars >>

\* self._api.get_fixtures(...) of the entry's client.
FetchFixtures(x, now) ==
    IF client = "keyed" THEN MatchdayApiClient_get_fixtures(x)
    ELSE OpenLigaDbClient_get_fixtures(league_id, team_id, x, now)

\* self._api.get_standings(...) of the entry's client.
FetchStandings(x) ==
    IF client = "keyed" THEN MatchdayApiClient_get_standings(x)
    ELSE OpenLigaDbClient_get_standings(league_id, x)

\* The fixtures fetch ends: with a list, or with an exception, which the
\* except clauses map and which ends the refresh.
GetFixtures ==
    /\ pc = "fetch_fixtures"
    /\ \E x \in (IF client = "keyed" THEN KeyedFixturesExchanges
                 ELSE OpenLigaDbFixturesExchanges),
          i \in 1..Len(NowSamples) :
         \E r \in {FetchFixtures(x, NowSamples[i])} :
             /\ (client = "keyed" \/ r.raised # "none") => i = 1
             /\ fetch_raised' = r.raised
             /\ fixtures' = r.items
             /\ now_fetch' = IF client = "keyed" \/ r.raised # "none"
                             THEN NoDatetime ELSE NowSamples[i]
             /\ IF r.raised # "none"
                THEN /\ outcome' = Catch(r.raised, UpdateExceptClauses)
                     /\ pc' = "idle"
                     /\ update_interval' =
                            IntervalAfterUpdate(update_interval, r.raised, None,
                                                None, NowSamples[i])
                ELSE /\ outcome' = "running"
                     /\ pc' = "fetch_standings"
                     /\ update_interval' = update_interval
    /\ UNCHANGED << configVars, prev_interval, proc, standing, standings,
                    result, now_process, now_adjust, assigned, apiVars, aloneVars, sensorVars, opVars >>

\* The standings fetch ends, and with a list the rest of _async_update_data
\* runs: _process_fixtures at one clock reading, _extract_standing, and
\* _adjust_poll_interval at the same or the next clock reading.
GetStandings ==
    /\ pc = "fetch_standings"
    /\ \E x \in (IF client = "keyed" THEN KeyedStandingsExchanges
                 ELSE OpenLigaDbStandingsExchanges) :
         \E r \in {FetchStandings(x)} :
             /\ fetch_raised' = r.raised
             /\ IF r.raised # "none"
                THEN /\ outcome' = Catch(r.raised, UpdateExceptClauses)
                     /\ proc' = NoProc
                     /\ standing' = None
                     /\ standings' = << >>
                     /\ result' = None
                     /\ now_process' = NoDatetime
                     /\ now_adjust' = NoDatetime
                     /\ assigned' = FALSE
                     /\ update_interval' =
                            IntervalAfterUpdate(update_interval, r.raised, None,
                                                None, NowSamples[1])
                ELSE \E i \in 1..Len(NowSamples) :
                     \E d \in {ProcessFetched(fixtures, r.items, team_id,
                                              NowSamples[i])} :
                     \E j \in {i, i + 1} \cap (1..Len(NowSamples)) :
                         /\ now_fetch.ok =>
                                Instant(now_fetch) <= Instant(NowSamples[i])
                         /\ d.raised # "none" => j = i
                         /\ outcome' = IF d.raised # "none" THEN d.raised
                                       ELSE "result"
                         /\ proc' = d.proc
                         /\ standing' = d.standing
                         /\ standings' = r.items
                         /\ result' = d.result
                         /\ now_process' = NowSamples[i]
                         /\ now_adjust' = IF d.raised # "none" THEN NoDatetime
                                          ELSE NowSamples[j]
                         /\ assigned' =
                                AssignedByUpdate(update_interval, d.raised,
                                                 d.proc.live, d.proc.next_match,
                                                 NowSamples[j])
                         /\ update_interval' =
                                IntervalAfterUpdate(update_interval, d.raised,
                                                    d.proc.live,
                                                    d.proc.next_match,
                                                    NowSamples[j])
    /\ pc' = "idle"
    /\ UNCHANGED << configVars, prev_interval, fixtures, now_fetch, apiVars, aloneVars, sensorVars, opVars >>

Next == StartRefresh \/ GetFixtures \/ GetStandings

Spec == Init /\ [][Next]_vars

\* The refresh has ended.
RefreshEnded == pc = "idle" /\ outcome # "none"

\* The calendar date of a datetime as text, YYYY-MM-DD.
DateText(dt) == StrInt(dt.y) \o << "-" >> \o Str2(dt.m) \o << "-" >> \o Str2(dt.d)

\* The date written in the fixture's timestamp is the UTC date of the clock
\* reading of the interval computation.
OnRefreshDay(f) == SubSeq(f.date, 1, 10) = DateText(now_adjust)

ProviderErrors ==
    {"MatchdayAuthError", "MatchdayRateLimitError", "MatchdayApiError",
     "OpenLigaDbError"}

\* C2: when a fetch of a refresh raises AuthError, QuotaExceeded, ApiError or
\* ProviderError, the polling interval keeps the value it had before the
\* refresh.
C2_FailedRefreshKeepsInterval ==
    (RefreshEnded /\ fetch_raised \in ProviderErrors) =>
        update_interval = prev_interval

\* A refresh that fails for quota while the interval is 1 minute.
C2_Witness ==
    /\ RefreshEnded
    /\ fetch_raised = "MatchdayRateLimitError"
    /\ outcome = "UpdateFailed"
    /\ prev_interval = 1
    /\ update_interval = 1

\* C3: an AuthError of a fetch ends the refresh with ConfigEntryAuthFailed,
\* never with UpdateFailed, and a QuotaExceeded error ends it with
\* UpdateFailed, never with ConfigEntryAuthFailed.
C3_AuthFatalQuotaTransient ==
    RefreshEnded =>
        /\ fetch_raised = "MatchdayAuthError" => outcome = "ConfigEntryAuthFailed"
        /\ fetch_raised = "MatchdayRateLimitError" => outcome = "UpdateFailed"

\* The standings fetch raises AuthError after the fixtures fetch succeeded.
C3_Witness ==
    /\ RefreshEnded
    /\ fetch_raised = "MatchdayAuthError"
    /\ outcome = "ConfigEntryAuthFailed"
    /\ Len(fixtures) > 0

\* C4: every ApiError of the keyed client and every ProviderError of the
\* keyless client ends the refresh with UpdateFailed.
C4_ProviderErrorsAreTransient ==
    (RefreshEnded /\ fetch_raised \in {"MatchdayApiError", "OpenLigaDbError"}) =>
        outcome = "UpdateFailed"

\* C8: the keyed client raises only AuthError, QuotaExceeded or ApiError, the
\* keyless client only ProviderError, and a refresh ends only in a result,
\* in ConfigEntryAuthFailed or in UpdateFailed.
C8_OnlyTypedErrors ==
    RefreshEnded =>
        /\ (client = "keyed" /\ fetch_raised # "none") =>
              fetch_raised \in {"MatchdayAuthError", "MatchdayRateLimitError",
                                "MatchdayApiError"}
        /\ (client = "keyless" /\ fetch_raised # "none") =>
              fetch_raised = "OpenLigaDbError"
        /\ outcome \in {"result", "ConfigEntryAuthFailed", "UpdateFailed"}

\* The places of the fetched standings that hold an entry of the tracked
\* team: league item, group, position in the group.
TrackedPlaces ==
    { p \in (1..3) \X (1..3) \X (1..3) :
        /\ p[1] <= Len(standings)
        /\ p[2] <= Len(standings[p[1]])
        /\ p[3] <= Len(standings[p[1]][p[2]])
        /\ standings[p[1]][p[2]][p[3]].team = team_id }

\* C11: the standing of a result is absent when no entry of any group of any
\* standings item is the tracked team's, it is that entry when the team occurs
\* exactly once, and an entry returned is always the tracked team's.
C11_StandingIsTrackedEntry ==
    (RefreshEnded /\ outcome = "result") =>
        /\ TrackedPlaces = {} => standing = None
        /\ Cardinality(TrackedPlaces) = 1 =>
               \E p \in TrackedPlaces :
                   standing = Some(standings[p[1]][p[2]][p[3]])
        /\ IsPresent(standing) => standing[1].team = team_id

\* The tracked team's only entry is in the second group of the second
\* standings item, and it is the standing of the result.
C11_Witness ==
    /\ RefreshEnded /\ outcome = "result"
    /\ TrackedPlaces = { << 2, 2, 1 >> }
    /\ standing = Some(standings[2][2][1])

\* The fixture, if any, is one of the fixtures fetched in this refresh.
FromThisCycle(opt) == IsPresent(opt) => opt[1] \in Range(fixtures)

\* C12: a result is produced only by a refresh whose two fetches both
\* returned, and it holds all four fields, computed from the fixtures and the
\* standings of that refresh; a refresh with a failed fetch produces none.
C12_ResultWhollyFromOneCycle ==
    RefreshEnded =>
        /\ fetch_raised # "none" => (result = None /\ outcome # "result")
        /\ outcome = "result" <=> IsPresent(result)
        /\ IsPresent(result) =>
              /\ DOMAIN result[1] = {"live", "next_match", "last_match", "standing"}
              /\ result[1].live = proc.live
              /\ result[1].next_match = FirstOrNone(proc.upcoming)
              /\ result[1].last_match = FirstOrNone(proc.past)
              /\ FromThisCycle(result[1].live)
              /\ FromThisCycle(result[1].next_match)
              /\ FromThisCycle(result[1].last_match)
              /\ IsPresent(result[1].standing) <=> TrackedPlaces # {}
              /\ IsPresent(result[1].standing) =>
                     \E p \in TrackedPlaces :
                         result[1].standing[1] = standings[p[1]][p[2]][p[3]]

\* A result with a live fixture, a next match and a standing.
C12_Witness ==
    /\ RefreshEnded /\ outcome = "result"
    /\ IsPresent(result)
    /\ IsPresent(result[1].live)
    /\ IsPresent(result[1].next_match)
    /\ IsPresent(result[1].standing)

\* The UTC calendar day of an instant, as a day number.
UtcDay(dt) == Instant(dt) \div (24 * 60 * 60)

\* The kickoff instant of the fixture lies on the UTC day of the clock reading
\* of the interval computation.
KickoffOnUtcDayOfRefresh(f) ==
    /\ Len(f.date) > 0
    /\ fromisoformat(f.date).ok
    /\ UtcDay(EnsureAware(fromisoformat(f.date))) = UtcDay(now_adjust)

\* C18: with no live fixture, the interval after a successful refresh is the
\* 5 minutes of a match day exactly when next_match is present and its
\* kickoff instant, converted to UTC, lies on the UTC calendar day of the
\* refresh; this also for a timestamp with a non-zero offset whose own date
\* differs from its UTC date.
C18_MatchdayByUtcDay ==
    (RefreshEnded /\ outcome = "result" /\ ~IsPresent(proc.live)) =>
        (update_interval = SCAN_INTERVAL_MATCHDAY
            <=> /\ IsPresent(proc.next_match)
                /\ KickoffOnUtcDayOfRefresh(proc.next_match[1]))

\* C22: whenever the result of a refresh has last_match present, the status
\* of that fixture is in the finished set FT, AET, PEN, with either provider.
C22_LastMatchIsFinished ==
    (RefreshEnded /\ outcome = "result" /\ IsPresent(result)) =>
        (IsPresent(result[1].last_match) =>
            result[1].last_match[1].status \in FINISHED_STATUS_CODES)

\* The interval the refresh that gave the result selects.
SelectedInterval ==
    IF IsPresent(proc.live) THEN SCAN_INTERVAL_LIVE
    ELSE IF IsPresent(proc.next_match) /\ OnRefreshDay(proc.next_match[1])
    THEN SCAN_INTERVAL_MATCHDAY
    ELSE SCAN_INTERVAL_DEFAULT

\* The step in which a refresh ends with a result.
RefreshSucceeds == pc = "fetch_standings" /\ pc' = "idle" /\ outcome' = "result"

\* C23: the interval starts at 30 minutes and is always 1, 5 or 30 minutes;
\* only a refresh that ends with a result changes it, to the interval that
\* refresh selects whatever the interval was, and the interval is assigned
\* only when the one selected differs from the current one.  So it is 30
\* until the first successful refresh and afterwards the selection of the
\* most recent successful one.
C23_IntervalIsLastSelection ==
    /\ update_interval = SCAN_INTERVAL_DEFAULT
    /\ [][/\ update_interval' \in {SCAN_INTERVAL_LIVE, SCAN_INTERVAL_MATCHDAY,
                                   SCAN_INTERVAL_DEFAULT}
          /\ IF RefreshSucceeds
             THEN /\ update_interval' = SelectedInterval'
                  /\ assigned' <=> update_interval' # update_interval
             ELSE /\ update_interval' = update_interval
                  /\ ~assigned']_vars

\* A successful refresh moved the interval from 1 minute directly to 30.
C23_Witness ==
    /\ RefreshEnded /\ outcome = "result"
    /\ prev_interval = SCAN_INTERVAL_LIVE
    /\ update_interval = SCAN_INTERVAL_DEFAULT
    /\ assigned

(***************************************************************************)
(* The keyed client's operations on the exchange of one request            *)
(***************************************************************************)

\* Entries of an `errors` dict: key and value.
ErrPairs ==
    { << kToken, JStr(sExpired) >>, << kToken, JStr(sMissingKey) >>,
      << kRequests, JStr(sLimitReached) >>, << sRateLimit, JStr(sTooMany) >>,
      << sBug, JStr(sBoom) >> }

\* `errors` fields: missing, null, dicts with distinct keys and lists of at
\* most MaxErrItems entries, strings and numbers.
ErrorsSamples ==
    { ErrAbsent, ErrNull }
    \cup { ErrDict([i \in 1..Len(l) |-> l[i][1]], [i \in 1..Len(l) |-> l[i][2]]) :
             l \in { m \in SeqsUpTo(ErrPairs, MaxErrItems) :
                       \A i, j \in 1..Len(m) : i # j => m[i][1] # m[j][1] } }
    \cup { ErrList(l) :
             l \in SeqsUpTo({JStr(sExpired), JStr(sMissingKey), JStr(sTooMany),
                             JStr(sBoom), JInt(429)}, MaxErrItems) }
    \cup { ErrScalar(v) : v \in {JStr(<< >>), JStr(sMissingKey), JStr(sBoom),
                                 JInt(0), JInt(5)} }

\* `response` fields of the status endpoint: t is the JSON type of the field
\* and account the type and size of its `account` field.
StatusResponse(t, account_t, account_n) ==
    [t |-> t, account |-> [t |-> account_t, n |-> account_n]]

StatusResponses ==
    { StatusResponse(t, "absent", 0) : t \in {"absent", "null", "list", "dict"} }
    \cup { StatusResponse("dict", "null", 0), StatusResponse("dict", "dict", 2),
           StatusResponse("dict", "dict", 0), StatusResponse("dict", "list", 0),
           StatusResponse("dict", "list", 1), StatusResponse("dict", "str", 1) }

StatusBodies ==
    { [kind |-> k, errors |-> ErrAbsent, response |-> StatusResponse("absent", "absent", 0)] :
        k \in {"nonjson", "array", "scalar"} }
    \cup { [kind |-> "object", errors |-> e, response |-> r] :
             e \in ErrorsSamples, r \in StatusResponses }

\* Exchanges of a status request: a transport failure, or a response of some
\* status whose text can or cannot be read.
StatusExchanges ==
    { Exchange(c, 0, "none", CHOOSE b \in StatusBodies : b.kind = "nonjson") :
        c \in {"ClientError", "TimeoutError", "RuntimeError"} }
    \cup { Exchange("none", st, rd, b) :
             st \in {200, 204, 304, 401, 404, 499, 500},
             rd \in {"none", "UnicodeDecodeError"},
             b \in StatusBodies }

InitApi ==
    /\ client = "keyed" /\ league_id = 39 /\ team_id = 1
    /\ update_interval = SCAN_INTERVAL_DEFAULT
    /\ prev_interval = SCAN_INTERVAL_DEFAULT
    /\ pc = "unused"
    /\ CycleCleared
    /\ exchange \in StatusExchanges
    /\ api_pc = "ready"
    /\ api_op = "none"
    /\ api_raised = "none"
    /\ api_ret = FALSE
    /\ AloneUnused
    /\ OpsUnused
    /\ SensorUnused

\* MatchdayApiClient._request runs on the exchange.
Request ==
    /\ api_pc = "ready"
    /\ api_pc' = "done"
    /\ api_op' = "_request"
    /\ api_raised' = MatchdayApiClient_request(exchange)
    /\ api_ret' = FALSE
    /\ UNCHANGED << configVars, update_interval, pc, prev_interval, cycleVars,
                    exchange, aloneVars, sensorVars, opVars >>

\* MatchdayApiClient.validate_api_key runs, the exchange being that of its
\* status request.
ValidateApiKey ==
    /\ api_pc = "ready"
    /\ api_pc' = "done"
    /\ api_op' = "validate_api_key"
    /\ api_raised' = validate_api_key(exchange).raised
    /\ api_ret' = validate_api_key(exchange).ret
    /\ UNCHANGED << configVars, update_interval, pc, prev_interval, cycleVars,
                    exchange, aloneVars, sensorVars, opVars >>

NextApi == Request \/ ValidateApiKey

SpecApi == InitApi /\ [][NextApi]_vars

\* A response arrived and its text was read.
Answered == exchange.connect = "none" /\ exchange.read = "none"

\* The `errors` field mentions a credential keyword: 'token' or 'key', in
\* any letter case, occurs in one of its keys or of its stringified values.
MentionsCredential(errors) ==
    \E text \in Range(errors.ks) \cup {PyStr(errors.vs[i]) : i \in 1..Len(errors.vs)} :
        Contains(kToken, Lower(text)) \/ Contains(kKey, Lower(text))

\* C5: a 200 response whose body has a non-empty `errors` field mentioning a
\* credential keyword raises AuthError; so does {"errors": {"token":
\* "expired"}}, where the keyword is the field name.
C5_BodyCredentialErrorIsAuthError ==
    (/\ api_pc = "done" /\ api_op = "_request"
     /\ Answered /\ exchange.status = 200
     /\ exchange.body.kind = "object"
     /\ Truthy(exchange.body.errors)
     /\ MentionsCredential(exchange.body.errors))
        => api_raised = "MatchdayAuthError"

\* C6: status 401 raises AuthError, status 499 QuotaExceeded and every other
\* status outside 200..299 plain ApiError, whatever the body.
C6_StatusDecides ==
    (api_pc = "done" /\ api_op = "_request" /\ exchange.connect = "none") =>
        /\ exchange.status = 401 => api_raised = "MatchdayAuthError"
        /\ exchange.status = 499 => api_raised = "MatchdayRateLimitError"
        /\ exchange.status \notin (200..299) \cup {401, 499} =>
              api_raised = "MatchdayApiError"

\* C7: validate_api_key never raises, and returns true only if `response`
\* is an object whose account field is a populated object.
C7_ValidateNeverRaises ==
    (api_pc = "done" /\ api_op = "validate_api_key") =>
        /\ api_raised = "none"
        /\ api_ret =>
              /\ exchange.body.response.t = "dict"
              /\ exchange.body.response.account.t = "dict"
              /\ exchange.body.response.account.n > 0

\* _request reached the body-level check: a response arrived, the status
\* layer raised nothing, the text was read and denotes a JSON object.
BodyChecked ==
    /\ api_pc = "done" /\ api_op = "_request"
    /\ Answered
    /\ exchange.status < 400
    /\ exchange.body.kind = "object"

\* The message of the `errors` field holds the keyword in some letter case.
\* The parts of the message are the stringified values, and no keyword has
\* a character of the separator, so the keyword lies within one part.
MessageMentions(errors, keyword) ==
    \E i \in 1..Len(errors.vs) : Contains(keyword, Lower(PyStr(errors.vs[i])))

\* The `errors` field is absent, null, or an empty object, list or string.
EmptyOrAbsent(errors) ==
    \/ errors.t \in {"absent", "null"}
    \/ errors.t \in {"dict", "list"} /\ Len(errors.vs) = 0
    \/ errors.t = "str" /\ Len(errors.vs[1].s) = 0

\* C19: the body-level check classifies the message of a non-empty `errors`
\* field with a fixed priority: AuthError if it holds 'token' or 'key' in any
\* letter case; else QuotaExceeded if it holds 'limit' or 'requests'; else
\* ApiError, so every such field raises one of the three.  An empty or
\* absent field raises nothing and the data is returned.
C19_ClassifierPriority ==
    BodyChecked =>
        /\ Truthy(exchange.body.errors) =>
              api_raised =
                  IF \/ MessageMentions(exchange.body.errors, kToken)
                     \/ MessageMentions(exchange.body.errors, kKey)
                  THEN "MatchdayAuthError"
                  ELSE IF \/ MessageMentions(exchange.body.errors, kLimit)
                          \/ MessageMentions(exchange.body.errors, kRequests)
                  THEN "MatchdayRateLimitError"
                  ELSE "MatchdayApiError"
        /\ EmptyOrAbsent(exchange.body.errors) => api_raised = "none"

\* The errors list ["Too many Requests", "Missing application KEY"] holds a
\* quota keyword and then a credential keyword, and AuthError is raised.
C19_Witness ==
    /\ BodyChecked /\ exchange.status = 200
    /\ exchange.body.errors = ErrList(<< JStr(sTooMany), JStr(sMissingKey) >>)
    /\ api_raised = "MatchdayAuthError"

(***************************************************************************)
(* _normalize_fixture on its own: every match record at every clock reading *)
(***************************************************************************)

MaxResults == 2

\* matchDateTimeUTC fields around noon of 1 May: kickoff now, in a minute,
\* 150 and 151 minutes ago; a missing and an unparseable one.
UtcFieldSamples ==
    { MkDate(1, 12, 0, zZ), MkDate(1, 12, 1, zZ), MkDate(1, 9, 30, zZ),
      MkDate(1, 9, 29, zZ), NoDate, BadDate }

\* matchDateTime fields: the provider's local time, written without a zone.
LocalFieldSamples ==
    { NoDate, MkDate(1, 13, 30, zNaive), MkDate(1, 11, 30, zNaive),
      MkDate(1, 10, 0, zNaive) }

\* Entries of matchResults: halftime (1), final (2) and another type.
ResultEntry(type, p1, p2) ==
    [resultTypeID |-> type, pointsTeam1 |-> p1, pointsTeam2 |-> p2]

ResultEntrySamples ==
    { ResultEntry(1, 1, 0), ResultEntry(2, 2, 1), ResultEntry(2, 0, 0),
      ResultEntry(3, 1, 1) }

ResultsSamples ==
    { NoResults, [t |-> "null", items |-> << >>] }
    \cup { [t |-> "list", items |-> l] : l \in SeqsUpTo(ResultEntrySamples, MaxResults) }

NormalizeMatchSamples ==
    { [Match(7, 1, 2, fin, utc, loc) EXCEPT !.results = res] :
        fin \in BOOLEAN, utc \in UtcFieldSamples, loc \in LocalFieldSamples,
        res \in ResultsSamples }

InitNormalize ==
    /\ client = "keyless" /\ league_id = 78 /\ team_id = 1
    /\ update_interval = SCAN_INTERVAL_DEFAULT
    /\ prev_interval = SCAN_INTERVAL_DEFAULT
    /\ pc = "unused"
    /\ CycleCleared
    /\ exchange = NoExchange
    /\ api_pc = "ready"
    /\ api_op = "none"
    /\ api_raised = "none"
    /\ api_ret = FALSE
    /\ match \in NormalizeMatchSamples
    /\ now_norm \in {NowSamples[1], NowSamples[4]}
    /\ normalized = NoNormalized
    /\ OpsUnused
    /\ SensorUnused

\* _normalize_fixture(match, league_id, now) runs.
NormalizeFixture ==
    /\ api_pc = "ready"
    /\ api_pc' = "done"
    /\ api_op' = "_normalize_fixture"
    /\ normalized' = NormalizedMatch(match, now_norm)
    /\ UNCHANGED << configVars, update_interval, pc, prev_interval, cycleVars,
                    exchange, api_raised, api_ret, match, now_norm, opVars, sensorVars >>

NextNormalize == NormalizeFixture

SpecNormalize == InitNormalize /\ [][NextNormalize]_vars

\* _normalize_fixture has returned.
Normalized == api_pc = "done" /\ api_op = "_normalize_fixture"

\* The zone the provider writes its local times in: German time, which is
\* two hours ahead of UTC in May.
ProviderLocalZone == zPlus2

\* The kickoff of the match: the UTC field, or the local-time field read in
\* the provider's zone when the UTC field is absent.
KickoffOf(m) ==
    IF Len(m.utc) > 0 THEN _parse_utc(m.utc)
    ELSE IF Len(m.localdt) > 0 THEN fromisoformat(m.localdt \o ProviderLocalZone)
    ELSE NoDatetime

\* Seconds from the kickoff to `now`.
ElapsedSeconds(m, now) == Instant(now) - Instant(KickoffOf(m))

EntriesOfType(m, type) ==
    IF m.results.t # "list" THEN {}
    ELSE {i \in 1..Len(m.results.items) : m.results.items[i].resultTypeID = type}

\* The score is that of the first entry of the type, or null : null when
\* matchResults is missing, null, empty or without an entry of the type.
ScoreFromEntry(score, m, type) ==
    IF EntriesOfType(m, type) = {}
    THEN score.home = None /\ score.away = None
    ELSE \E i \in EntriesOfType(m, type) :
            /\ \A j \in EntriesOfType(m, type) : i <= j
            /\ score.home = Some(m.results.items[i].pointsTeam1)
            /\ score.away = Some(m.results.items[i].pointsTeam2)

\* C14: the goals are those of the result entry marked final and the halftime
\* score those of the entry marked halftime; a missing, empty or unmatched
\* result list gives null scores; a finished match has status FT.
C14_ScoresFromResultEntries ==
    Normalized =>
        /\ ScoreFromEntry(normalized.goals, match, 2)
        /\ ScoreFromEntry(normalized.halftime, match, 1)
        /\ match.finished => normalized.fixture.status = "FT"

\* A finished match with the final entry 2 : 1 and no halftime entry is
\* normalized to FT with goals 2 : 1 and a null halftime score.
C14_Witness ==
    /\ Normalized
    /\ match.finished
    /\ match.results = [t |-> "list", items |-> << ResultEntry(2, 2, 1) >>]
    /\ normalized.fixture.status = "FT"
    /\ normalized.goals = [home |-> Some(2), away |-> Some(1)]
    /\ normalized.halftime = [home |-> None, away |-> None]

\* The number of status classifications a status code falls under.
Classifications(status) ==
    Cardinality({ c \in {"live", "finished", "not-started"} :
                    \/ c = "live" /\ status \in LIVE_STATUS_CODES
                    \/ c = "finished" /\ status \in FINISHED_STATUS_CODES
                    \/ c = "not-started" /\ status = "NS" })

\* C21: a normalized fixture falls under exactly one of the classifications
\* live, finished and not-started, and with the status NS its goals home and
\* away are both null.
C21_OneClassNoGoalsBeforeStart ==
    Normalized =>
        /\ Classifications(normalized.fixture.status) = 1
        /\ normalized.fixture.status = "NS" =>
              normalized.goals = [home |-> None, away |-> None]

(***************************************************************************)
(* The public operations of the clients, each called on its own            *)
(***************************************************************************)

MaxCount == 2

\* Counters of the status payload.
CounterSamples ==
    { Counter("absent", 0), Counter("null", 0), Counter("str", 0) }
    \cup { Counter("int", n) : n \in 0..MaxCount }

\* `response` fields of the status endpoint as get_quota_remaining reads
\* them.
QuotaResponse(t, requests_t, limit_day, current) ==
    [t |-> t,
     requests |-> [t |-> requests_t, limit_day |-> limit_day, current |-> current]]

QuotaResponses ==
    { QuotaResponse(t, "absent", Counter("absent", 0), Counter("absent", 0)) :
        t \in {"absent", "null", "list", "dict"} }
    \cup { QuotaResponse("dict", t, Counter("absent", 0), Counter("absent", 0)) :
             t \in {"null", "list"} }
    \cup { QuotaResponse("dict", "dict", l, c) :
             l \in CounterSamples, c \in CounterSamples }

QuotaBodies ==
    { [kind |-> k, errors |-> ErrAbsent,
       response |-> QuotaResponse("absent", "absent", Counter("absent", 0),
                                  Counter("absent", 0))] :
        k \in {"nonjson", "array"} }
    \cup { [kind |-> "object", errors |-> e, response |-> r] :
             e \in { ErrAbsent, ErrList(<< >>),
                     ErrDict(<< kToken >>, << JStr(sMissingKey) >>),
                     ErrDict(<< kRequests >>, << JStr(sLimitReached) >>) },
             r \in QuotaResponses }

\* Exchanges of the status request of get_quota_remaining.
QuotaExchanges ==
    { Exchange(c, 0, "none", CHOOSE b \in QuotaBodies : b.kind = "nonjson") :
        c \in {"ClientError", "TimeoutError"} }
    \cup { Exchange("none", st, "none", b) :
             st \in {200, 401, 499, 500}, b \in QuotaBodies }

MaxTeams == 3

\* Team names: lower and upper case, one a prefix of another, and none.
TeamNameSamples == { << "a" >>, << "B" >>, << "b" >>, << "a", "b" >>, << >> }

\* Teams of a `response` of the keyed API: team.id and team.name, the name
\* being "" for a team without one.
KeyedTeamLists ==
    { [i \in 1..Len(l) |-> [id |-> i, name |-> l[i]]] :
        l \in SeqsUpTo(TeamNameSamples, MaxTeams) }

\* Exchanges of the teams request of the keyed client.
KeyedTeamsExchanges ==
    KeyedFailedExchanges
    \cup { Exchange("none", 200, "none", ObjectBody(ErrAbsent, ListResponse(l))) :
             l \in KeyedTeamLists }
    \cup { Exchange("none", 200, "none",
                    ObjectBody(ErrAbsent, [t |-> t, items |-> << >>])) :
             t \in {"absent", "dict"} }

\* Teams of OpenLigaDB: teamId and teamName, which can be missing.
OpenLigaDbTeamLists ==
    { [i \in 1..Len(l) |->
          [teamId |-> i,
           teamName |-> IF Len(l[i]) = 0 THEN None ELSE Some(l[i])]] :
        l \in SeqsUpTo(TeamNameSamples, MaxTeams) }

\* Exchanges of the teams request of the keyless client.
OpenLigaDbTeamsExchanges ==
    OpenLigaDbFailedExchanges
    \cup { Exchange("none", 200, "none", OpenLigaDbBody("array", l)) :
             l \in OpenLigaDbTeamLists }

\* A client has been built and none of its operations called.
InitOps ==
    /\ \E c \in { << "keyed", 39 >>, << "keyless", 78 >>, << "keyless", 81 >>,
                   << "keyless", 39 >>, << "keyless", 140 >> } :
          client = c[1] /\ league_id = c[2]
    /\ team_id = 1
    /\ update_interval = SCAN_INTERVAL_DEFAULT
    /\ prev_interval = SCAN_INTERVAL_DEFAULT
    /\ pc = "unused"
    /\ CycleCleared
    /\ exchange = NoExchange
    /\ api_pc = "ready"
    /\ api_op = "none"
    /\ api_raised = "none"
    /\ api_ret = FALSE
    /\ AloneUnused
    /\ OpsUnused
    /\ SensorUnused

\* MatchdayApiClient.get_quota_remaining runs; its status request is
\* answered by some exchange.
GetQuotaRemaining ==
    /\ api_pc = "ready" /\ client = "keyed"
    /\ \E x \in QuotaExchanges :
         \E r \in {get_quota_remaining(x)} :
             /\ exchange' = x
             /\ api_raised' = r.raised
             /\ quota' = r.ret
    /\ api_pc' = "done"
    /\ api_op' = "get_quota_remaining"
    /\ http_requests' = 1
    /\ UNCHANGED << configVars, update_interval, pc, prev_interval, cycleVars,
                    api_ret, aloneVars, sensorVars, teams >>

\* get_teams of the client runs; its request, if it issues one, is answered
\* by some exchange.
CallGetTeams ==
    /\ api_pc = "ready"
    /\ \E x \in (IF client = "keyed" THEN KeyedTeamsExchanges
                 ELSE OpenLigaDbTeamsExchanges) :
         \E r \in { IF client = "keyed" THEN MatchdayApiClient_get_teams(x)
                     ELSE OpenLigaDbClient_get_teams(league_id, x) } :
             /\ exchange' = IF r.requests = 0 THEN NoExchange ELSE x
             /\ api_raised' = r.raised
             /\ teams' = r.items
             /\ http_requests' = r.requests
    /\ api_pc' = "done"
    /\ api_op' = "get_teams"
    /\ UNCHANGED << configVars, update_interval, pc, prev_interval, cycleVars,
                    api_ret, aloneVars, sensorVars, quota >>

\* get_fixtures of the client runs.
CallGetFixtures ==
    /\ api_pc = "ready"
    /\ \E x \in (IF client = "keyed" THEN KeyedFixturesExchanges
                 ELSE OpenLigaDbFixturesExchanges),
          i \in 1..Len(NowSamples) :
         \E r \in {FetchFixtures(x, NowSamples[i])} :
             /\ (client = "keyed" \/ r.raised # "none") => i = 1
             /\ exchange' = IF r.requests = 0 THEN NoExchange ELSE x
             /\ api_raised' = r.raised
             /\ fixtures' = r.items
             /\ now_fetch' = IF client = "keyed" \/ r.raised # "none"
                             THEN NoDatetime ELSE NowSamples[i]
             /\ http_requests' = r.requests
    /\ api_pc' = "done"
    /\ api_op' = "get_fixtures"
    /\ UNCHANGED << configVars, update_interval, pc, prev_interval,
                    fetch_raised, outcome, proc, standing, standings, result,
                    now_process, now_adjust, assigned, api_ret, aloneVars, sensorVars, quota, teams >>

\* get_standings of the client runs.
CallGetStandings ==
    /\ api_pc = "ready"
    /\ \E x \in (IF client = "keyed" THEN KeyedStandingsExchanges
                 ELSE OpenLigaDbStandingsExchanges) :
         \E r \in {FetchStandings(x)} :
             /\ exchange' = IF r.requests = 0 THEN NoExchange ELSE x
             /\ api_raised' = r.raised
             /\ standings' = r.items
             /\ http_requests' = r.requests
    /\ api_pc' = "done"
    /\ api_op' = "get_standings"
    /\ UNCHANGED << configVars, update_interval, pc, prev_interval,
                    fetch_raised, outcome, fixtures, proc, standing, result,
                    now_fetch, now_process, now_adjust, assigned, api_ret, aloneVars, sensorVars,
                    quota, teams >>

NextOps ==
    GetQuotaRemaining \/ CallGetTeams \/ CallGetFixtures \/ CallGetStandings

SpecOps == InitOps /\ [][NextOps]_vars

\* get_quota_remaining has ended.
QuotaDone == api_pc = "done" /\ api_op = "get_quota_remaining"

\* The status request succeeded and its payload has both counters as
\* numbers.
QuotaPayloadOk ==
    /\ exchange.connect = "none" /\ exchange.status = 200
    /\ exchange.body.kind = "object"
    /\ ~Truthy(exchange.body.errors)
    /\ exchange.body.response.t = "dict"
    /\ exchange.body.response.requests.t = "dict"
    /\ exchange.body.response.requests.limit_day.t = "int"
    /\ exchange.body.response.requests.current.t = "int"

\* C15: get_quota_remaining never raises; from a well-formed status payload
\* it returns max(0, limit - used), which is never negative; on a failed
\* status request or a malformed payload it returns absent.
C15_QuotaNeverRaisesNeverNegative ==
    QuotaDone =>
        /\ api_raised = "none"
        /\ IF QuotaPayloadOk
           THEN LET l == exchange.body.response.requests.limit_day.n
                    u == exchange.body.response.requests.current.n
                IN  quota = Some(IF u > l THEN 0 ELSE l - u)
           ELSE quota = None

\* An operation of the keyless client has ended.
KeylessOpDone ==
    /\ client = "keyless" /\ api_pc = "done"
    /\ api_op \in {"get_teams", "get_fixtures", "get_standings"}

\* C16: get_teams, get_fixtures and get_standings of the keyless client,
\* called for a league without a shortcode, fail with ProviderError without
\* issuing an HTTP request; a request is issued only for the leagues of the
\* shortcode mapping.
C16_NoShortcodeNoRequest ==
    KeylessOpDone =>
        /\ league_id \notin {78, 79, 81} =>
               (api_raised = "OpenLigaDbError" /\ http_requests = 0)
        /\ http_requests > 0 => league_id \in {78, 79, 81}
        /\ league_id \in {78, 79, 81} => http_requests = 1

\* get_standings for league 140, which has no shortcode, failed without a
\* request.
C16_Witness ==
    /\ KeylessOpDone /\ api_op = "get_standings"
    /\ league_id = 140
    /\ api_raised = "OpenLigaDbError"
    /\ http_requests = 0

\* get_teams has returned the teams of a response that is a list.
TeamsReturned ==
    /\ api_pc = "done" /\ api_op = "get_teams" /\ api_raised = "none"
    /\ http_requests = 1
    /\ IF client = "keyed" THEN exchange.body.response.t = "list"
       ELSE exchange.body.kind = "array"

\* The teams of the response, in source order, as id and name.
ResponseTeams ==
    IF client = "keyed" THEN exchange.body.response.items
    ELSE [i \in 1..Len(exchange.body.items) |->
             [id |-> exchange.body.items[i].teamId,
              name |-> IF exchange.body.items[i].teamName = << >> THEN << >>
                       ELSE exchange.body.items[i].teamName[1]]]

\* C17: get_teams of either client returns the teams of the response, none
\* added or dropped, ascending by name in case-sensitive order, teams with
\* equal names in source order.
C17_TeamsSortedByName ==
    TeamsReturned =>
        /\ Len(teams) = Len(ResponseTeams)
        /\ Range(teams) = Range(ResponseTeams)
        /\ \A i, j \in 1..Len(teams) :
              i < j =>
                  /\ ~StrLess(teams[j].name, teams[i].name)
                  /\ teams[i].name = teams[j].name => teams[i].id < teams[j].id

\* "a", "B", "a" comes back as "B", "a", "a" with the two "a" in source
\* order.
C17_Witness ==
    /\ TeamsReturned
    /\ Len(teams) = 3
    /\ [i \in 1..3 |-> ResponseTeams[i].name] = << << "a" >>, << "B" >>, << "a" >> >>
    /\ [i \in 1..3 |-> teams[i].id] = << 2, 1, 3 >>

\* get_standings of the keyless client returned the normalized table of the
\* response.
TableNormalized ==
    /\ api_pc = "done" /\ api_op = "get_standings" /\ client = "keyless"
    /\ api_raised = "none" /\ http_requests = 1
    /\ exchange.body.kind = "array"

\* C24: the normalized standings are one league item with one group, which
\* has one entry per row of the source table in source order, with rank the
\* 1-based position of the row and with form and description null.
C24_StandingsRankedInTableOrder ==
    TableNormalized =>
        /\ Len(standings) = 1
        /\ Len(standings[1]) = 1
        /\ Len(standings[1][1]) = Len(exchange.body.items)
        /\ \A i \in 1..Len(exchange.body.items) :
              /\ standings[1][1][i].team = exchange.body.items[i].teamInfoId
              /\ standings[1][1][i].rank = i
              /\ standings[1][1][i].form = None
              /\ standings[1][1][i].description = None

\* A table of three rows, the teams 3, 1, 2, is normalized.
C24_Witness ==
    /\ TableNormalized
    /\ Len(exchange.body.items) = 3
    /\ [i \in 1..3 |-> standings[1][1][i].team] = << 3, 1, 2 >>
    /\ [i \in 1..3 |-> standings[1][1][i].rank] = << 1, 2, 3 >>

\* get_fixtures of the keyless client returned for a response that is a
\* list.
SeasonFiltered ==
    /\ api_pc = "done" /\ api_op = "get_fixtures" /\ client = "keyless"
    /\ api_raised = "none" /\ http_requests = 1
    /\ exchange.body.kind = "array"

\* The positions of the season response at which the tracked team plays the
\* home or the away side.
TrackedMatches ==
    { i \in 1..Len(exchange.body.items) :
        team_id \in {exchange.body.items[i].team1, exchange.body.items[i].team2} }

\* The k-th smallest element of a set of positions.
KthOf(S, k) == CHOOSE i \in S : Cardinality({j \in S : j <= i}) = k

\* What the coordinator makes of the fixtures at some clock reading.
ChosenAt(now) ==
    Range(_process_fixtures(fixtures, now).live)
        \cup Range(_process_fixtures(fixtures, now).next_match)
        \cup Range(_process_fixtures(fixtures, now).last_match)

\* C26: get_fixtures of the keyless client returns exactly the matches of the
\* season response in which the tracked team is the home or the away team,
\* normalized, in source order; a match of other teams is not returned, and
\* so is never the live, the next or the last match.
C26_OnlyMatchesOfTrackedTeam ==
    SeasonFiltered =>
        /\ Len(fixtures) = Cardinality(TrackedMatches)
        /\ \A k \in 1..Len(fixtures) :
              fixtures[k] =
                  _normalize_fixture(exchange.body.items[KthOf(TrackedMatches, k)],
                                     now_fetch)
        /\ \A i \in 1..Len(exchange.body.items) :
              i \notin TrackedMatches =>
                  /\ \A k \in 1..Len(fixtures) :
                        fixtures[k].id # exchange.body.items[i].matchID
                  /\ \A n \in 1..Len(NowSamples) :
                        \A f \in ChosenAt(NowSamples[n]) :
                            f.id # exchange.body.items[i].matchID

\* A match of the teams 2 and 3 and then an away match of the tracked team:
\* only the second is returned.
C26_Witness ==
    /\ SeasonFiltered
    /\ Len(exchange.body.items) = 2
    /\ TrackedMatches = {2}
    /\ exchange.body.items[2].team2 = team_id
    /\ Len(fixtures) = 1 /\ fixtures[1].id = 2

(***************************************************************************)
(* The opponent lookup of the sensors, on its own                          *)
(***************************************************************************)

MaxTeamId == 4

\* A variant of _opponent: the home side when the tracked team is at home.
_opponent_SameSide(teams_of_fixture, tracked) ==
    IF teams_of_fixture.home.id = tracked THEN teams_of_fixture.home
    ELSE teams_of_fixture.away

\* MatchdaySensorBase._opponent: `away if home["id"] == team_id else home`.
_opponent(teams_of_fixture, tracked) ==
    IF teams_of_fixture.home.id = tracked THEN teams_of_fixture.away
    ELSE teams_of_fixture.home

\* A sensor of an entry that tracks some team is given some fixture.
InitSensor ==
    /\ client = "keyed" /\ league_id = 39
    /\ team_id \in 1..MaxTeamId
    /\ update_interval = SCAN_INTERVAL_DEFAULT
    /\ prev_interval = SCAN_INTERVAL_DEFAULT
    /\ pc = "unused"
    /\ CycleCleared
    /\ exchange = NoExchange
    /\ api_pc = "ready"
    /\ api_op = "none"
    /\ api_raised = "none"
    /\ api_ret = FALSE
    /\ AloneUnused
    /\ OpsUnused
    /\ pairing \in {Pairing(h, a) : h, a \in 1..MaxTeamId}
    /\ opponent = None

\* self._opponent(fixture) runs.
Opponent ==
    /\ api_pc = "ready"
    /\ api_pc' = "done"
    /\ api_op' = "_opponent"
    /\ opponent' = Some(_opponent(pairing, team_id))
    /\ UNCHANGED << configVars, update_interval, pc, prev_interval, cycleVars,
                    exchange, api_raised, api_ret, aloneVars, opVars, pairing >>

NextSensor == Opponent

SpecSensor == InitSensor /\ [][NextSensor]_vars

\* _opponent has returned.
OpponentFound == api_pc = "done" /\ api_op = "_opponent"

\* C25: the opponent lookup returns the away team when the tracked team is
\* the home team and the home team when the tracked team is the away team;
\* when the tracked team plays exactly one side, the id of the team returned
\* is not the tracked team id.
C25_OpponentIsOtherSide ==
    OpponentFound =>
        /\ pairing.home.id = team_id => opponent = Some(pairing.away)
        /\ (pairing.away.id = team_id /\ pairing.home.id # team_id) =>
              opponent = Some(pairing.home)
        /\ ((pairing.home.id = team_id) # (pairing.away.id = team_id)) =>
              opponent[1].id # team_id

\* The tracked team plays away and the home team is returned.
C25_Witness ==
    /\ OpponentFound
    /\ pairing.away.id = team_id /\ pairing.home.id # team_id
    /\ opponent = Some(pairing.home)

====
